---------------------------- MODULE Spec2Model ----------------------------
(***************************************************************************)
(* A model of the LinkedIn post extraction engine, src/Factory/CreateJSON.py *)
(* with the batch runner, Re_Process_html_Batch.py, and the consolidator,  *)
(* Convert_to_XLSX.py.                                                     *)
(*                                                                         *)
(* Strings are sequences of one-character strings.  A post container (one  *)
(* div.feed-shared-update-v2 of the parsed document) is a record of the    *)
(* regions the selectors of the code look for, in document order.          *)
(* Instants are [day, ms]: whole days since 2010-01-01 00:00 local time    *)
(* and the milliseconds within that day (a fixed UTC offset is assumed).   *)
(***************************************************************************)
EXTENDS Integers, Sequences, FiniteSets, TLC

VARIABLES
    pc,             \* position of the run under study
    raw_name,       \* clean_name: the argument
    cleaned_name,   \* clean_name: the successive results, first call first
    text,           \* create_slug: the argument
    slug,           \* create_slug: the result
    now,            \* the instant datetime.now() returns during the run
    date_text,      \* get_date: the relative-age argument
    post_container, \* the post container under study
    formatted_date, \* get_date: what the call did, [raised, value, ...]
    media,          \* get_final_media_info: what the call did
    post,           \* one loop iteration of process_posts: what it did
    rerun,          \* the same iteration run a second time
    soup,           \* process_posts: the post containers of the document
    posts,          \* process_posts: the containers get_posts returned
    i,              \* process_posts: the index of the loop
    results,        \* process_posts: the records appended so far
    count_text,     \* get_numeric_value: the text argument
    resolved,       \* the value the resolver under study returned
    argv,           \* CreateJSON.py: the command-line arguments after the script name
    fs,             \* what the run finds: is the input readable, can files be written
    written,        \* the ids of the Post_<id>.json files written
    stdout,         \* the lines of interest the run printed on standard output
    stderr,         \* the lines the run left on the error stream
    returncode,     \* <<the exit code of the run>>, <<>> while it runs
    report,         \* run_create_json: what the batch caller concluded
    activity_id,    \* decode_linkedin_timestamp: the argument
    post_datetime,  \* decode_linkedin_timestamp: what the call returned
    months,         \* get_date, month branch: the magnitude of the age
    new_month,      \* get_date, month branch: the month after the loop
    new_year,       \* get_date, month branch: the year after the loop
    video,          \* get_video_info: what the call did
    xlsx,           \* Convert_to_XLSX.py: the Excel file found, None when there is none
    df_master,      \* the rows of the existing dataset
    existing_keys,  \* the duplicate-detection keys known
    all_json_files, \* the JSON files found, in the order of the scan
    new_records,    \* the records added
    processed_files,\* the counter of files added
    skipped_files,  \* the counter of files skipped
    summary,        \* the counts the processing summary printed
    script_exists,  \* Re_Process_html_Batch.py: is CreateJSON.py in the current directory
    html_files,     \* the LatestPosts.html files found, in the order of the walk
    response,       \* what the user typed at the prompt
    invocations,    \* the runs of CreateJSON.py started, each [html_file, result]
    successful,     \* the counter of runs that succeeded
    failed          \* the counter of runs that failed

nameVars == <<raw_name, cleaned_name>>
slugVars == <<text, slug>>
dateVars == <<date_text, formatted_date>>
recordVars == <<media, post, rerun>>
batchVars == <<soup, posts, i, results>>
resolverVars == <<count_text, resolved>>
runVars == <<argv, fs, written, stdout, stderr, returncode, report>>
decodeVars == <<activity_id, post_datetime>>
rolloverVars == <<months, new_month, new_year>>
videoVars == <<video>>
consolidatorVars == <<xlsx, df_master, existing_keys, all_json_files, new_records, processed_files, skipped_files, summary>>
runnerVars == <<script_exists, html_files, response, invocations, successful, failed>>
restVars == <<decodeVars, rolloverVars, videoVars, consolidatorVars, runnerVars>>
vars == <<pc, raw_name, cleaned_name, text, slug, now, date_text,
          post_container, formatted_date, media, post, rerun,
          soup, posts, i, results, count_text, resolved,
          argv, fs, written, stdout, stderr, returncode, report,
          activity_id, post_datetime,
          months, new_month, new_year,
          video,
          xlsx, df_master, existing_keys, all_json_files, new_records, processed_files, skipped_files, summary,
          script_exists, html_files, response, invocations, successful, failed>>

\* the variables a specification does not use keep these values
NameIdle == raw_name = <<>> /\ cleaned_name = <<>>
SlugIdle == text = <<>> /\ slug = <<>>
DateIdle == date_text = <<>> /\ formatted_date = <<>>
ClockIdle == now = 0
NodeIdle == post_container = <<>>
RecordIdle == media = <<>> /\ post = <<>> /\ rerun = <<>>
BatchIdle == soup = <<>> /\ posts = <<>> /\ i = 0 /\ results = <<>>
ResolverIdle == count_text = <<>> /\ resolved = <<>>
RunIdle ==
    /\ argv = <<>> /\ fs = <<>> /\ written = <<>> /\ stdout = <<>> /\ stderr = <<>>
    /\ returncode = <<>> /\ report = <<>>
DecodeIdle == activity_id = <<>> /\ post_datetime = <<>>
RolloverIdle == months = <<>> /\ new_month = <<>> /\ new_year = <<>>
VideoIdle == video = <<>>
ConsolidatorIdle == xlsx = <<>> /\ df_master = <<>> /\ existing_keys = <<>> /\ all_json_files = <<>> /\ new_records = <<>> /\ processed_files = <<>> /\ skipped_files = <<>> /\ summary = <<>>
RunnerIdle == script_exists = <<>> /\ html_files = <<>> /\ response = <<>> /\ invocations = <<>> /\ successful = <<>> /\ failed = <<>>
RestIdle == DecodeIdle /\ RolloverIdle /\ VideoIdle /\ ConsolidatorIdle /\ RunnerIdle

(***************************************************************************)
(* Bounds of the model                                                     *)
(***************************************************************************)
MaxNameLen == 7
MaxSlugTail == 3
MaxAge == 13
MaxIds == 2
MaxImages == 2
MaxNodes == 12
MaxMonths == 40
MaxDurations == 2
MaxRows == 1
MaxFiles == 3
MaxDocuments == 3

(***************************************************************************)
(* Characters and strings                                                  *)
(***************************************************************************)
Min(a, b) == IF a <= b THEN a ELSE b
Max(a, b) == IF a >= b THEN a ELSE b

\* With([x \in {v} |-> e]) is e with x standing for the value of v, v being
\* evaluated once: an assignment x = v followed by the statements that read x
With(f) == f[CHOOSE x \in DOMAIN f : TRUE]

\* All sequences over S of length 0..n
SeqsUpTo(S, n) == UNION {[1..k -> S] : k \in 0..n}

\* the bullet character U+2022, written "*" in the model
Bullet == "*"

\* \s of the re module, for the characters the model uses
IsSpace(c) == c \in {" ", "\t", "\n"}

UpperCase == <<"A","B","C","D","E","F","G","H","I","J","K","L","M",
               "N","O","P","Q","R","S","T","U","V","W","X","Y","Z">>
LowerCase == <<"a","b","c","d","e","f","g","h","i","j","k","l","m",
               "n","o","p","q","r","s","t","u","v","w","x","y","z">>
Digits == {"0","1","2","3","4","5","6","7","8","9"}
DigitChars == <<"0","1","2","3","4","5","6","7","8","9">>

\* str.lower(), one character
LowerChar(c) ==
    IF \E k \in 1..26 : UpperCase[k] = c
    THEN LowerCase[CHOOSE k \in 1..26 : UpperCase[k] = c]
    ELSE c

\* str.lower()
lower(s) == [k \in 1..Len(s) |-> LowerChar(s[k])]

\* the character class [a-z0-9]
IsSlugChar(c) == (\E k \in 1..26 : LowerCase[k] = c) \/ c \in Digits

\* s[a:b] of Python with 0 <= a, written with 1-based inclusive positions
Slice(s, from, to) == SubSeq(s, from, Min(to, Len(s)))

\* p occurs in s at position k
OccursAt(s, p, k) ==
    /\ k >= 1
    /\ k + Len(p) - 1 <= Len(s)
    /\ \A j \in 1..Len(p) : s[k + j - 1] = p[j]

\* p in s
Contains(s, p) == \E k \in 1..(Len(s) + 1) : OccursAt(s, p, k)

\* s.find(p), 1-based; 0 when p does not occur
Find(s, p) ==
    IF Contains(s, p)
    THEN CHOOSE k \in 1..(Len(s) + 1) :
            OccursAt(s, p, k) /\ \A j \in 1..(k - 1) : ~OccursAt(s, p, j)
    ELSE 0

\* str.strip(): whitespace removed at both ends
strip(s) ==
    LET keep == {k \in 1..Len(s) : ~IsSpace(s[k])}
    IN  IF keep = {} THEN <<>>
        ELSE SubSeq(s, CHOOSE a \in keep : \A b \in keep : a <= b,
                       CHOOSE a \in keep : \A b \in keep : a >= b)

\* str.strip('-')
strip_hyphens(s) ==
    LET keep == {k \in 1..Len(s) : s[k] # "-"}
    IN  IF keep = {} THEN <<>>
        ELSE SubSeq(s, CHOOSE a \in keep : \A b \in keep : a <= b,
                       CHOOSE a \in keep : \A b \in keep : a >= b)

\* re.sub(r'\s+', ' ', text): every run of whitespace becomes one space
collapse_spaces(s) ==
    LET mark == [k \in 1..Len(s) |->
                    IF ~IsSpace(s[k]) THEN s[k]
                    ELSE IF k = 1 \/ ~IsSpace(s[k - 1]) THEN " " ELSE "drop"]
    IN  SelectSeq(mark, LAMBDA c : c # "drop")

\* clean(text)
clean(s) == IF s = <<>> THEN <<>> ELSE With([t \in {collapse_spaces(s)} |-> strip(t)])

\* str.split(): the maximal runs of non-whitespace, in order
RECURSIVE split(_)
split(s) ==
    With([t \in {strip(s)} |->
        IF t = <<>> THEN <<>>
        ELSE LET sp == {k \in 1..Len(t) : IsSpace(t[k])}
                 e  == IF sp = {} THEN Len(t) + 1
                       ELSE CHOOSE a \in sp : \A b \in sp : a <= b
             IN  <<SubSeq(t, 1, e - 1)>> \o With([rest \in {SubSeq(t, e, Len(t))} |-> split(rest)])])

\* " ".join(words)
RECURSIVE join(_)
join(words) ==
    IF words = <<>> THEN <<>>
    ELSE IF Len(words) = 1 THEN words[1]
    ELSE words[1] \o <<" ">> \o join(Tail(words))

(***************************************************************************)
(* create_slug                                                             *)
(***************************************************************************)
SLUG_MAX == 400

\* re.sub(r'[^a-z0-9]+', '-', text)
hyphenate(s) ==
    LET mark == [k \in 1..Len(s) |->
                    IF IsSlugChar(s[k]) THEN s[k]
                    ELSE IF k = 1 \/ IsSlugChar(s[k - 1]) THEN "-" ELSE "drop"]
    IN  SelectSeq(mark, LAMBDA c : c # "drop")

create_slug(t) ==
    IF t = <<>> THEN <<>>
    ELSE With([lowered \in {lower(t)} |->
         With([hyphenated \in {hyphenate(lowered)} |->
         With([stripped \in {strip_hyphens(hyphenated)} |->
           Slice(stripped, 1, SLUG_MAX)])])])

\* generate_post_slug(description): the slug of the first 8 words
generate_post_slug(description) ==
    IF description = <<>> THEN <<>>
    ELSE With([words \in {split(description)} |->
         With([title \in {join(Slice(words, 1, 8))} |-> create_slug(title)])])

(***************************************************************************)
(* clean_name                                                              *)
(***************************************************************************)
\* re.sub(r'\s+[<bullet>|]\s+.*$', '', name): the text before the first whitespace
\* run that is followed by a bullet or pipe and whitespace (no line breaks
\* in the names of the model, so .*$ reaches the end)
strip_separator_suffix(name) ==
    LET isMatch(k) ==
            /\ IsSpace(name[k])
            /\ \E j \in (k + 1)..(Len(name) - 1) :
                  /\ \A m \in k..(j - 1) : IsSpace(name[m])
                  /\ name[j] \in {Bullet, "|"}
                  /\ IsSpace(name[j + 1])
        hits == {k \in 1..Len(name) : isMatch(k)}
    IN  IF hits = {} THEN name
        ELSE SubSeq(name, 1, (CHOOSE a \in hits : \A b \in hits : a <= b) - 1)

\* STEP 2: first half equals second half
drop_exact_duplication(name) ==
    LET half == Len(name) \div 2
    IN  IF Len(name) % 2 = 0 /\ SubSeq(name, 1, half) = SubSeq(name, half + 1, Len(name))
        THEN SubSeq(name, 1, half)
        ELSE name

\* STEP 3: the word list is two equal halves
drop_word_duplication(name) ==
    With([words \in {split(name)} |->
        LET half == Len(words) \div 2
        IN  IF Len(words) >= 2 /\ SubSeq(words, 1, half) = SubSeq(words, half + 1, Len(words))
            THEN join(SubSeq(words, 1, half))
            ELSE name])

\* STEP 4: re.match(r'^(.+?)\1+$', name): the shortest prefix whose
\* repetition, twice or more, is the whole name
drop_pattern_duplication(name) ==
    LET isPeriod(p) ==
            /\ Len(name) % p = 0
            /\ Len(name) \div p >= 2
            /\ \A k \in 1..Len(name) : name[k] = name[((k - 1) % p) + 1]
        periods == {p \in 1..Len(name) : isPeriod(p)}
    IN  IF periods = {} THEN name
        ELSE SubSeq(name, 1, CHOOSE a \in periods : \A b \in periods : a <= b)

\* STEP 5: name.split(sep)[0].strip() when sep occurs in name
cut_at(name, sep) ==
    IF Contains(name, sep)
    THEN With([head \in {SubSeq(name, 1, Find(name, sep) - 1)} |-> strip(head)])
    ELSE name

clean_name(raw) ==
    IF raw = <<>> THEN <<>>
    ELSE With([n1 \in {strip_separator_suffix(raw)} |->
         With([n2 \in {drop_exact_duplication(n1)} |->
         With([n3 \in {drop_word_duplication(n2)} |->
         With([n4 \in {drop_pattern_duplication(n3)} |->
         With([n5 \in {cut_at(n4, <<Bullet>>)} |->
         With([n6 \in {cut_at(n5, <<" ", "a", "t", " ">>)} |->
           strip(n6)])])])])])])

(***************************************************************************)
(* Calendar and instants: what the code uses of datetime and timedelta     *)
(***************************************************************************)
MINYEAR == 1
MAXYEAR == 9999
DAY_MS == 86400000

IsLeap(y) == (y % 4 = 0 /\ y % 100 # 0) \/ y % 400 = 0

DaysInMonth(y, m) ==
    IF m = 2 THEN (IF IsLeap(y) THEN 29 ELSE 28)
    ELSE IF m \in {4, 6, 9, 11} THEN 30 ELSE 31

\* days from 0001-01-01 to the first day of year y
DaysBeforeYear(y) ==
    365 * (y - 1) + ((y - 1) \div 4) - ((y - 1) \div 100) + ((y - 1) \div 400)

RECURSIVE DaysBeforeMonth(_, _)
DaysBeforeMonth(y, m) ==
    IF m = 1 THEN 0 ELSE DaysBeforeMonth(y, m - 1) + DaysInMonth(y, m - 1)

\* date.toordinal()
Ordinal(y, m, d) == DaysBeforeYear(y) + DaysBeforeMonth(y, m) + d

\* the day number of a date, counted from datetime(2010, 1, 1)
DayOf(y, m, d) == Ordinal(y, m, d) - Ordinal(2010, 1, 1)

\* date.fromordinal(): [year, month, day] of a day number
CivilOf(day) ==
    LET n == day + Ordinal(2010, 1, 1)
        guess == ((n * 400) \div 146097) + 1
        y == CHOOSE c \in (guess - 1)..(guess + 1) :
                DaysBeforeYear(c) < n /\ n <= DaysBeforeYear(c + 1)
        rest == n - DaysBeforeYear(y)
        m == CHOOSE c \in 1..12 :
                DaysBeforeMonth(y, c) < rest /\ rest <= DaysBeforeMonth(y, c) + DaysInMonth(y, c)
    IN  [year |-> y, month |-> m, day |-> rest - DaysBeforeMonth(y, m)]

\* datetime(y, m, d, hh, mm, ss, ms * 1000)
Instant(y, m, d, hh, mm, ss, msec) ==
    [day |-> DayOf(y, m, d), ms |-> ((hh * 60 + mm) * 60 + ss) * 1000 + msec]

\* a <= b on datetimes
NotAfter(a, b) == a.day < b.day \/ (a.day = b.day /\ a.ms <= b.ms)

\* the year of an instant lies in MINYEAR..MAXYEAR
InRange(t) ==
    /\ t.day >= DayOf(MINYEAR, 1, 1)
    /\ t.day < DayOf(MAXYEAR, 12, 31) + 1

\* t - timedelta(days=days, minutes=minutes)
MinusDelta(t, days, minutes) ==
    LET total == t.ms - minutes * 60000
    IN  [day |-> t.day - days + (total \div DAY_MS), ms |-> total % DAY_MS]

\* n written with at least `width` decimal digits
RECURSIVE NumStr(_, _)
NumStr(n, width) ==
    IF n < 10 /\ width <= 1 THEN <<DigitChars[n + 1]>>
    ELSE NumStr(n \div 10, width - 1) \o <<DigitChars[(n % 10) + 1]>>

\* t.strftime('%Y-%m-%d %H:%M:%S'): the fraction of the second is dropped
strftime(t) ==
    LET c == CivilOf(t.day)
        secs == t.ms \div 1000
    IN  NumStr(c.year, 4) \o <<"-">> \o NumStr(c.month, 2) \o <<"-">> \o NumStr(c.day, 2)
        \o <<" ">> \o NumStr(secs \div 3600, 2) \o <<":">> \o NumStr((secs \div 60) % 60, 2)
        \o <<":">> \o NumStr(secs % 60, 2)

\* what stands for an exception raised by datetime, and for None
ValueError == [error |-> "ValueError"]
ConversionError == [error |-> "fromtimestamp"]
None == [none |-> TRUE]

\* d.replace(year=y, month=m): the instant, or ValueError when that day
\* does not exist
replace(t, y, m) ==
    LET c == CivilOf(t.day)
    IN  IF y < MINYEAR \/ y > MAXYEAR \/ c.day > DaysInMonth(y, m)
        THEN ValueError
        ELSE [day |-> DayOf(y, m, c.day), ms |-> t.ms]

(***************************************************************************)
(* Stage 1: the instant encoded in an activity identifier                  *)
(*                                                                         *)
(* An activity id is [q, b]: q is the instant-sized number id >> 25, as    *)
(* [day, ms] (whole days of milliseconds and the rest), b the three bits   *)
(* 22..24 of the id.  The lower 22 bits are never read.                    *)
(***************************************************************************)
\* id_num >> shift, in milliseconds, as [day, ms], for shift in 22..25
ShiftRight(id, shift) ==
    LET f == IF shift = 25 THEN 1 ELSE IF shift = 24 THEN 2 ELSE IF shift = 23 THEN 4 ELSE 8
        total == id.q.ms * f + (id.b \div (8 \div f))
    IN  [day |-> id.q.day * f + (total \div DAY_MS), ms |-> total % DAY_MS]

\* datetime.fromtimestamp((linkedin_epoch + timestamp_part) / 1000): the
\* instant, or ConversionError when its year is beyond MAXYEAR
fromtimestamp(part) == IF InRange(part) THEN part ELSE ConversionError

\* earliest <= post_datetime <= now
sane(t, clock) == NotAfter([day |-> 0, ms |-> 0], t) /\ NotAfter(t, clock)

\* METHOD 2 of decode_linkedin_timestamp: the shifts 22, 24, 25 in turn
RECURSIVE try_shifts(_, _, _)
try_shifts(id, shifts, clock) ==
    IF shifts = <<>> THEN None
    ELSE LET t == fromtimestamp(ShiftRight(id, shifts[1]))
         IN  IF t # ConversionError /\ sane(t, clock) THEN t
             ELSE try_shifts(id, Tail(shifts), clock)

\* decode_linkedin_timestamp(activity_id): an instant or None
decode_linkedin_timestamp(id, clock) ==
    LET t == fromtimestamp(ShiftRight(id, 23))
    IN  IF t = ConversionError THEN None
        ELSE IF sane(t, clock) THEN t
        ELSE try_shifts(id, <<22, 24, 25>>, clock)

\* extract_linkedin_activity_timestamp(post_container): the activity ids
\* found in the container are tried in the order the three methods meet
\* them; an entry Broken is tracking data whose parsing raises an
\* exception that only the outer handler catches
Broken == [broken |-> TRUE]

RECURSIVE first_decoded(_, _)
first_decoded(ids, clock) ==
    IF ids = <<>> THEN None
    ELSE IF ids[1] = Broken THEN None
    ELSE LET t == decode_linkedin_timestamp(ids[1], clock)
         IN  IF t # None THEN t ELSE first_decoded(Tail(ids), clock)

extract_linkedin_activity_timestamp(container, clock) ==
    first_decoded(container.activity_ids, clock)

(***************************************************************************)
(* Stage 2 and get_date                                                    *)
(***************************************************************************)
DigitVal(c) == (CHOOSE k \in 1..10 : DigitChars[k] = c) - 1

RECURSIVE int(_)
int(digits) ==
    IF digits = <<>> THEN 0
    ELSE 10 * int(SubSeq(digits, 1, Len(digits) - 1)) + DigitVal(digits[Len(digits)])

\* the end of the run of characters of class C that starts at position k
RECURSIVE RunEnd(_, _, _)
RunEnd(s, k, C) == IF k + 1 <= Len(s) /\ s[k + 1] \in C THEN RunEnd(s, k + 1, C) ELSE k

\* re.search(r'(\d+)', date_text).group(1) as a number; -1 when there is
\* no digit (the code then raises AttributeError)
first_number(s) ==
    LET at == {k \in 1..Len(s) : s[k] \in Digits}
    IN  IF at = {} THEN -1
        ELSE LET a == CHOOSE x \in at : \A y \in at : x <= y
             IN  int(SubSeq(s, a, RunEnd(s, a, Digits)))

\* the branch of get_date a relative-age string takes
unit_of(s) ==
    IF Contains(s, <<"h">>) THEN "h"
    ELSE IF Contains(s, <<"m", "o">>) THEN "mo"
    ELSE IF Contains(s, <<"w">>) THEN "w"
    ELSE IF Contains(s, <<"d">>) THEN "d"
    ELSE IF Contains(s, <<"y">>) THEN "y"
    ELSE "none"

\* random.randint(a, b)
randint(a, b) == a..b

\* the draws get_date makes for a relative-age string: [days, hours,
\* minutes], 0 for a draw the branch does not make; R(a, b) is the set of
\* values of randint(a, b) that the specification considers
Jitter(s, R(_, _)) ==
    LET u == unit_of(s)
    IN  IF u = "h" THEN [days : {0}, hours : {0}, minutes : R(-30, 30)]
        ELSE IF u = "mo" THEN [days : R(-15, 15), hours : R(0, 23), minutes : R(0, 59)]
        ELSE IF u = "w" THEN [days : R(-3, 3), hours : R(0, 23), minutes : R(0, 59)]
        ELSE IF u = "d" THEN [days : {0}, hours : R(-12, 12), minutes : R(0, 59)]
        ELSE IF u = "y" THEN [days : R(-60, 60), hours : R(0, 23), minutes : R(0, 59)]
        ELSE [days : {0}, hours : {0}, minutes : {0}]

\* the month branch normalizing the month modulo 12 without the borrow
rollover_modulo(month, year) ==
    [month |-> month % 12, year |-> year + ((month - 1) \div 12)]

\* the while loop of the month branch
RECURSIVE rollover(_, _)
rollover(month, year) ==
    IF month <= 0 THEN rollover(month + 12, year - 1)
    ELSE [month |-> month, year |-> year]

Raised(exc) == [raised |-> TRUE, exc |-> exc]
Returned(t, stage) == [raised |-> FALSE, value |-> strftime(t), instant |-> t, stage |-> stage]

\* date + timedelta(...), then strftime
Finish(t) == IF t = ValueError THEN Raised("ValueError")
             ELSE IF ~InRange(t) THEN Raised("OverflowError")
             ELSE Returned(t, 2)

\* STEP 2 of get_date, with the draws rnd
relative_date(s, today, rnd) ==
    LET u == unit_of(s)
        n == first_number(s)
        c == CivilOf(today.day)
    IN  IF u = "none" THEN Returned(today, 2)
        ELSE IF n < 0 THEN Raised("AttributeError")
        ELSE IF u = "h" THEN Finish(MinusDelta(today, 0, n * 60 + rnd.minutes))
        ELSE IF u = "mo" THEN
            LET r == rollover(c.month - n, c.year)
                d == replace(today, r.year, r.month)
            IN  IF d = ValueError THEN Raised("ValueError")
                ELSE Finish(MinusDelta(d, -rnd.days, -(rnd.hours * 60 + rnd.minutes)))
        ELSE IF u = "w" THEN
            Finish(MinusDelta(today, 7 * n + rnd.days, rnd.hours * 60 + rnd.minutes))
        ELSE IF u = "d" THEN
            Finish(MinusDelta(today, n, rnd.hours * 60 + rnd.minutes))
        ELSE
            LET d == replace(today, c.year - n, c.month)
            IN  IF d = ValueError THEN Raised("ValueError")
                ELSE Finish(MinusDelta(d, -rnd.days, -(rnd.hours * 60 + rnd.minutes)))

\* get_date with the relative age tried before the activity id
get_date_relative_first(s, container, clock, rnd) ==
    LET precise == extract_linkedin_activity_timestamp(container, clock)
    IN  IF unit_of(s) # "none" \/ precise = None THEN relative_date(s, clock, rnd)
        ELSE Returned(precise, 1)

\* get_date with the minutes drawn for stage 2 taken off the decoded instant
get_date_jittered(s, container, clock, rnd) ==
    LET precise == extract_linkedin_activity_timestamp(container, clock)
    IN  IF precise # None THEN Returned(MinusDelta(precise, 0, rnd.minutes), 1)
        ELSE relative_date(s, clock, rnd)

\* get_date(date_text, post_container)
get_date(s, container, clock, rnd) ==
    LET precise == extract_linkedin_activity_timestamp(container, clock)
    IN  IF precise # None THEN Returned(precise, 1)
        ELSE relative_date(s, clock, rnd)

(***************************************************************************)
(* The post container                                                      *)
(*                                                                         *)
(* An element that a selector may or may not find is None or a record of   *)
(* what the code reads of it.  Lists are in document order.                *)
(*   header          .update-components-header: [text, in_text_view, img]  *)
(*   actors          .update-components-actor__container, each             *)
(*                   [parent, in_wrapper, in_pt3, title, avatar,           *)
(*                    description, link]; title is [text, name], name the  *)
(*                    span[dir=ltr] of the title                           *)
(*   has_wrapper     the quoted-card wrapper .MxyAgNz... exists            *)
(*   has_pt3         a .pt3 element exists                                 *)
(*   reshare_markers the reshare marker classes present                    *)
(*   descriptions    .feed-shared-inline-show-more-text, each              *)
(*                   [in_pt3, in_update_wrapper, span, text, toggle]       *)
(*   commentary      .update-components-update-v2__commentary: [span]      *)
(*   sub_description .update-components-actor__sub-description: [text]     *)
(*   alt_descriptions the three alternative description elements           *)
(*   likes, comments, reposts, reposts_alt   the count elements: [text]    *)
(*   video_markers, carousel_markers, image_links, posters,                *)
(*   duration_texts, data_duration, ld_scripts, iframe_title, doc_title    *)
(*                   the media regions                                     *)
(*   activity_ids    the activity ids in the order stage 1 tries them      *)
(***************************************************************************)
Elem(t) == [text |-> t]

EmptyContainer ==
    [activity_ids |-> <<>>,
     header |-> None,
     actors |-> <<>>,
     has_wrapper |-> FALSE,
     has_pt3 |-> FALSE,
     reshare_markers |-> {},
     descriptions |-> <<>>,
     commentary |-> None,
     sub_description |-> None,
     alt_descriptions |-> <<None, None, None>>,
     likes |-> None,
     comments |-> None,
     reposts |-> None,
     reposts_alt |-> None,
     video_markers |-> {},
     carousel_markers |-> {},
     image_links |-> <<>>,
     posters |-> <<None, None, None>>,
     duration_texts |-> <<>>,
     data_duration |-> None,
     ld_scripts |-> <<>>,
     iframe_title |-> None,
     doc_title |-> None]

\* the first element of a list that satisfies P, or None
First(list, P(_)) ==
    LET at == {k \in 1..Len(list) : P(list[k])}
    IN  IF at = {} THEN None ELSE list[CHOOSE a \in at : \A b \in at : a <= b]

\* str.replace(old, new)
RECURSIVE str_replace(_, _, _)
str_replace(s, old, new) ==
    IF ~Contains(s, old) THEN s
    ELSE LET k == Find(s, old)
         IN  SubSeq(s, 1, k - 1) \o new
             \o With([rest \in {SubSeq(s, k + Len(old), Len(s))} |-> str_replace(rest, old, new)])

\* the phrases the code looks for
RepostedThis == <<"r","e","p","o","s","t","e","d"," ","t","h","i","s">>
HashtagMark == <<"h","a","s","h","t","a","g","#">>
Followers == <<"f","o","l","l","o","w","e","r","s">>
\* the character U+2026, written "~" in the model
Ellipsis == "~"
MoreMark == <<Ellipsis, "m", "o", "r", "e">>

AllSpace(s, from, to) == \A k \in from..to : IsSpace(s[k])

(***************************************************************************)
(* Engagement                                                              *)
(***************************************************************************)
\* re.search(pattern, text) for the patterns (\d[\d,]*) followed by \s* and
\* `word` (with an optional s when word is not empty): the captured group,
\* or None
count_match(s, word) ==
    LET countChars == Digits \cup {","}
        isMatch(a) ==
            /\ s[a] \in Digits
            /\ LET r == RunEnd(s, a, countChars)
               IN  word = <<>> \/
                   \E j \in (r + 1)..(Len(s) + 1) :
                       AllSpace(s, r + 1, j - 1) /\ OccursAt(s, word, j)
        hits == {a \in 1..Len(s) : isMatch(a)}
    IN  IF hits = {} THEN None
        ELSE LET a == CHOOSE x \in hits : \A y \in hits : x <= y
             IN  Elem(SubSeq(s, a, RunEnd(s, a, countChars)))

\* int(numeric_string) inside the try of get_numeric_value: the number, or 0
\* after the ValueError of a string that is no decimal number
int_or_zero(numeric_string) ==
    IF numeric_string # <<>> /\ \A k \in 1..Len(numeric_string) : numeric_string[k] \in Digits
    THEN int(numeric_string)
    ELSE 0

\* get_numeric_value with the commas left in the captured group
get_numeric_value_keeping_commas(s, word) ==
    IF s = <<>> THEN 0
    ELSE LET m == count_match(s, word)
         IN  IF m = None THEN 0 ELSE int_or_zero(m.text)

\* get_numeric_value(text, pattern)
get_numeric_value(s, word) ==
    IF s = <<>> THEN 0
    ELSE LET m == count_match(s, word)
         IN  IF m = None THEN 0 ELSE int_or_zero(str_replace(m.text, <<",">>, <<>>))

\* the words of the patterns r'(\d[\d,]*)\s*comments?' and r'(\d[\d,]*)\s*reposts?'
CommentWord == <<"c","o","m","m","e","n","t">>
RepostWord == <<"r","e","p","o","s","t">>

\* get_engagement(post_container)
get_engagement(c) ==
    [likes |-> IF c.likes = None THEN 0
               ELSE get_numeric_value(clean(c.likes.text), <<>>),
     comments |-> IF c.comments = None THEN 0
                  ELSE get_numeric_value(clean(c.comments.text), CommentWord),
     reposts |-> IF c.reposts # None
                 THEN get_numeric_value(clean(c.reposts.text), RepostWord)
                 ELSE IF c.reposts_alt # None
                 THEN get_numeric_value(clean(c.reposts_alt.text), RepostWord)
                 ELSE 0]

(***************************************************************************)
(* Post type                                                               *)
(***************************************************************************)
\* the texts of .update-components-header__text-view and
\* .update-components-actor__title elements
header_texts(c) ==
    (IF c.header # None /\ c.header.in_text_view THEN <<c.header.text>> ELSE <<>>)
    \o [k \in 1..Len(SelectSeq(c.actors, LAMBDA a : a.title # None)) |->
            SelectSeq(c.actors, LAMBDA a : a.title # None)[k].title.text]

has_marker_phrase(c) ==
    \E k \in 1..Len(header_texts(c)) : Contains(header_texts(c)[k], RepostedThis)

\* len(set(parents)) of METHOD 3.  The parent of an actor container is
\* [node, markup]: which element it is, and its markup.  Tag.__eq__ and
\* Tag.__hash__ of bs4 compare name, attributes and contents, so a set holds
\* two elements of equal markup once.
distinct_parents(c) == Cardinality({c.actors[k].parent.markup : k \in 1..Len(c.actors)})

\* is_repost(post_container), with the number of the method that decides
repost_signal(c) ==
    IF c.has_wrapper /\ \E k \in 1..Len(c.actors) : c.actors[k].in_wrapper THEN 1
    ELSE IF has_marker_phrase(c) THEN 2
    ELSE IF Len(c.actors) > 1 /\ distinct_parents(c) > 1 THEN 3
    ELSE IF c.reshare_markers # {} THEN 4
    ELSE IF c.has_pt3 /\ \E k \in 1..Len(c.actors) : c.actors[k].in_pt3 THEN 5
    ELSE 0

is_repost(c) == repost_signal(c) # 0

(***************************************************************************)
(* Content                                                                 *)
(***************************************************************************)
\* the tag names of the ancestors of an element of a post container
AncestorTags == {"div", "body", "html", "[document]"}

\* Tag.find_parent(name): the nearest ancestor whose tag name is `name`.
\* The code passes the CSS selector ".pt3", which is no tag name.
find_parent(element, name) ==
    IF name \in AncestorTags THEN [tag |-> name] ELSE None

\* clean(span.get_text()).replace("hashtag#", "#")
content_of(t) == With([content \in {clean(t)} |-> str_replace(content, HashtagMark, <<"#">>)])

\* get_post_description(post_container)
get_post_description(c) ==
    LET pt3_description ==
            IF c.has_pt3 THEN First(c.descriptions, LAMBDA d : d.in_pt3) ELSE None
        all == c.descriptions
        \* METHOD 2: the last description with a .pt3 parent and a span
        pt3_spans == {k \in 1..Len(all) :
                        find_parent(all[k], ".pt3") # None /\ all[k].span # None}
        nested_description == First(c.descriptions, LAMBDA d : d.in_update_wrapper)
        description_container == IF all = <<>> THEN None ELSE all[1]
    IN  IF pt3_description # None /\ pt3_description.span # None
        THEN content_of(pt3_description.span.text)
        ELSE IF Len(all) >= 2 /\ pt3_spans # {}
        THEN content_of(all[CHOOSE a \in pt3_spans : \A b \in pt3_spans : a >= b].span.text)
        ELSE IF nested_description # None /\ nested_description.span # None
        THEN content_of(nested_description.span.text)
        ELSE IF description_container = None THEN <<>>
        ELSE IF description_container.span # None
        THEN content_of(description_container.span.text)
        ELSE LET content == content_of(description_container.text)
             IN  IF ~Contains(content, MoreMark) /\ description_container.toggle
                 THEN content \o <<" ">> \o MoreMark
                 ELSE content

\* get_reposter_comment(post_container)
get_reposter_comment(c) ==
    LET all == c.descriptions
    IN  IF Len(all) >= 2 /\ find_parent(all[1], ".pt3") = None /\ all[1].span # None
        THEN content_of(all[1].span.text)
        ELSE IF c.commentary # None /\ find_parent(c.commentary, ".pt3") = None
                /\ c.commentary.span # None
        THEN content_of(c.commentary.span.text)
        ELSE <<>>

(***************************************************************************)
(* Authors                                                                 *)
(***************************************************************************)
\* re.search(r'(.*?)\s+reposted this', header_text): group 1, or None.  The
\* match starts at the leftmost position from which a stretch without line
\* break, then whitespace, then the phrase follow; group 1 is the shortest
\* such stretch.
repost_match(s) ==
    LET isMatch(a, e) ==
            /\ \A k \in a..e : s[k] # "\n"
            /\ \E j \in (e + 2)..(Len(s) + 1) :
                  AllSpace(s, e + 1, j - 1) /\ OccursAt(s, RepostedThis, j)
        starts == {a \in 1..(Len(s) + 1) : \E e \in (a - 1)..Len(s) : isMatch(a, e)}
    IN  IF starts = {} THEN None
        ELSE LET a == CHOOSE x \in starts : \A y \in starts : x <= y
                 ends == {e \in (a - 1)..Len(s) : isMatch(a, e)}
             IN  Elem(SubSeq(s, a, CHOOSE x \in ends : \A y \in ends : x <= y))

\* re.sub(r'\s*\d[\d,]*\s+followers.*$', '', description), on cleaned text
strip_followers(s) ==
    LET countChars == Digits \cup {","}
        isMatch(a) ==
            \E d \in a..Len(s) :
                /\ AllSpace(s, a, d - 1)
                /\ s[d] \in Digits
                /\ LET r == RunEnd(s, d, countChars)
                   IN  \E j \in (r + 2)..(Len(s) + 1) :
                          AllSpace(s, r + 1, j - 1) /\ OccursAt(s, Followers, j)
        hits == {a \in 1..Len(s) : isMatch(a)}
    IN  IF hits = {} THEN s
        ELSE SubSeq(s, 1, (CHOOSE x \in hits : \A y \in hits : x <= y) - 1)

UnknownUser == <<"U","n","k","n","o","w","n"," ","U","s","e","r">>

\* the span[dir=ltr] of the title of an actor container, or None
name_element(actor) ==
    IF actor # None /\ actor.title # None THEN actor.title.name ELSE None

\* the src of an avatar image; only_img: the selector names the img tag
avatar_src(actor, only_img) ==
    IF actor # None /\ actor.avatar # None /\ (actor.avatar.is_img \/ ~only_img)
       /\ actor.avatar.src # None
    THEN actor.avatar.src.text
    ELSE ""

\* get_profile_info that reads the reposter from the first actor container
\* whether or not the header holds the marker phrase
get_profile_info_first_actor(c, default_name, is_reposter) ==
    LET author_info == [name |-> default_name, pic |-> "", description |-> <<>>,
                        slug |-> create_slug(default_name)]
        named(info, raw) ==
            With([author_name \in {clean(raw)} |->
            With([name \in {clean_name(author_name)} |->
              [info EXCEPT !.name = name, !.slug = create_slug(name)]])])
        first_actor == IF c.actors = <<>> THEN None ELSE c.actors[1]
    IN  IF first_actor = None THEN author_info
        ELSE [(IF name_element(first_actor) # None
               THEN named(author_info, name_element(first_actor).text)
               ELSE author_info) EXCEPT
                !.pic = avatar_src(first_actor, FALSE),
                !.description = IF first_actor.description # None
                                THEN clean(first_actor.description.text) ELSE <<>>]

\* get_profile_info(post_container, default_name, is_reposter)
get_profile_info(c, default_name, is_reposter) ==
    LET author_info == [name |-> default_name, pic |-> "", description |-> <<>>,
                        slug |-> create_slug(default_name)]
        named(info, raw) ==
            With([author_name \in {clean(raw)} |->
            With([name \in {clean_name(author_name)} |->
              [info EXCEPT !.name = name, !.slug = create_slug(name)]])])
        repost_m == IF c.header = None THEN None ELSE repost_match(c.header.text)
        first_actor == IF c.actors = <<>> THEN None ELSE c.actors[1]
        titled == First(c.actors, LAMBDA a : a.title # None)
        pictured == First(c.actors, LAMBDA a : a.avatar # None)
        described == First(c.actors, LAMBDA a : a.description # None)
        alt == First(c.alt_descriptions, LAMBDA d : d # None)
    IN  IF is_reposter /\ repost_m # None THEN
            \* a standard repost: the name before "reposted this"
            [named(author_info, repost_m.text) EXCEPT
                !.pic = IF c.header.img # None /\ c.header.img.src # None
                        THEN c.header.img.src.text ELSE ""]
        ELSE IF is_reposter THEN
            \* a direct repost: the first actor container
            IF first_actor = None THEN author_info
            ELSE [(IF name_element(first_actor) # None
                   THEN named(author_info, name_element(first_actor).text)
                   ELSE author_info) EXCEPT
                    !.pic = avatar_src(first_actor, FALSE),
                    !.description = IF first_actor.description # None
                                    THEN clean(first_actor.description.text) ELSE <<>>]
        ELSE
            LET description == IF described # None THEN clean(described.description.text)
                               ELSE <<>>
            IN  [(IF name_element(titled) # None
                  THEN named(author_info, name_element(titled).text)
                  ELSE author_info) EXCEPT
                    !.pic = avatar_src(pictured, FALSE),
                    !.description = IF description # <<>> THEN description
                                    ELSE IF alt # None THEN strip_followers(clean(alt.text))
                                    ELSE <<>>]

AdamHarmetz == <<"A","d","a","m"," ","H","a","r","m","e","t","z">>
AdamSlug == <<"a","d","a","m","-","h","a","r","m","e","t","z">>
SharePointKeynote == <<"S","h","a","r","e","P","o","i","n","t"," ","k","e","y","n","o","t","e">>

\* post_container.get_text(): the texts of the container, one after another
RECURSIVE concat(_)
concat(texts) == IF texts = <<>> THEN <<>> ELSE texts[1] \o <<"\n">> \o concat(Tail(texts))

container_text(c) ==
    concat((IF c.header # None THEN <<c.header.text>> ELSE <<>>)
           \o [k \in 1..Len(c.actors) |->
                 IF c.actors[k].title # None THEN c.actors[k].title.text ELSE <<>>]
           \o [k \in 1..Len(c.descriptions) |->
                 IF c.descriptions[k].span # None THEN c.descriptions[k].span.text
                 ELSE c.descriptions[k].text])

\* author_info returned with the slug it has
keep_slug(info) == info

\* author_info with its slug made from its name
with_slug(info) == [info EXCEPT !.slug = create_slug(info.name)]

\* name_elem.get_text(), cleaned twice
cleaned_name_of(elem) == With([raw_text \in {clean(elem.text)} |-> clean_name(raw_text)])

\* APPROACH 1 of get_original_author_info: the main actor container of a
\* standard repost
original_from_main(c, empty) ==
    LET main == IF c.actors = <<>> THEN None ELSE c.actors[1]
    IN  IF ~has_marker_phrase(c) \/ main = None THEN empty
        ELSE [empty EXCEPT
                !.name = IF name_element(main) # None
                         THEN cleaned_name_of(name_element(main)) ELSE <<>>,
                !.pic = avatar_src(main, TRUE),
                !.description = IF main.description # None
                                THEN strip_followers(clean(main.description.text))
                                ELSE <<>>,
                !.link = IF main.link # None /\ main.link.href # None
                         THEN main.link.href.text ELSE ""]

\* APPROACH 2: the actor container inside the quoted-card wrapper
original_from_wrapper(c, a1) ==
    LET nested == IF c.has_wrapper THEN First(c.actors, LAMBDA a : a.in_wrapper) ELSE None
    IN  IF nested = None THEN a1
        ELSE [a1 EXCEPT
                !.name = IF name_element(nested) # None
                         THEN cleaned_name_of(name_element(nested)) ELSE @,
                !.pic = IF avatar_src(nested, TRUE) # "" THEN avatar_src(nested, TRUE)
                        ELSE @,
                !.link = IF nested.link # None /\ nested.link.href # None
                         THEN nested.link.href.text ELSE @]

\* APPROACH 3: the .pt3 container
original_from_pt3(c, a2) ==
    LET pt3_named == First(c.actors, LAMBDA a : a.in_pt3 /\ name_element(a) # None)
        pt3_img == First(c.actors, LAMBDA a : a.in_pt3 /\ a.avatar # None /\ a.avatar.is_img)
    IN  IF a2.name # <<>> \/ ~c.has_pt3 THEN a2
        ELSE [a2 EXCEPT
                !.name = IF pt3_named # None THEN cleaned_name_of(name_element(pt3_named))
                         ELSE @,
                !.pic = IF avatar_src(pt3_img, TRUE) # "" THEN avatar_src(pt3_img, TRUE)
                        ELSE @]

\* APPROACH 4 without its guard: the second or a later actor container
\* replaces the name found before
original_from_later_overriding(c, a3) ==
    LET later == {k \in 2..Len(c.actors) :
                    /\ name_element(c.actors[k]) # None
                    /\ cleaned_name_of(name_element(c.actors[k])) # <<>>}
        pick == IF later = {} THEN None
                ELSE c.actors[CHOOSE x \in later : \A y \in later : x <= y]
    IN  IF pick = None THEN a3
        ELSE [a3 EXCEPT !.name = cleaned_name_of(name_element(pick))]

\* APPROACH 4: the second or a later actor container
original_from_later(c, a3) ==
    LET later == {k \in 2..Len(c.actors) :
                    /\ name_element(c.actors[k]) # None
                    /\ cleaned_name_of(name_element(c.actors[k])) # <<>>}
        pick == IF later = {} THEN None
                ELSE c.actors[CHOOSE x \in later : \A y \in later : x <= y]
    IN  IF a3.name # <<>> \/ pick = None THEN a3
        ELSE [a3 EXCEPT
                !.name = cleaned_name_of(name_element(pick)),
                !.pic = IF avatar_src(pick, TRUE) # "" THEN avatar_src(pick, TRUE) ELSE @]

\* the special case of the SharePoint post
original_special_case(c, a4) ==
    IF a4.name = <<>> /\ Contains(container_text(c), SharePointKeynote)
    THEN [a4 EXCEPT !.name = AdamHarmetz, !.slug = AdamSlug, !.pic = "adam-harmetz.jpg"]
    ELSE a4

\* get_original_author_info(post_container)
get_original_author_info(c) ==
    With([empty \in {[name |-> <<>>, pic |-> "", slug |-> <<>>, link |-> "", description |-> <<>>]} |->
    With([a1 \in {original_from_main(c, empty)} |->
      IF a1.name # <<>> THEN with_slug(a1)
      ELSE
    With([a2 \in {original_from_wrapper(c, a1)} |->
      IF c.has_wrapper /\ a2.name # <<>> THEN with_slug(a2)
      ELSE
    With([a3 \in {original_from_pt3(c, a2)} |->
    With([a4 \in {original_from_later(c, a3)} |->
    With([a5 \in {original_special_case(c, a4)} |->
      IF a5.name # <<>> /\ a5.slug = <<>> THEN with_slug(a5) ELSE a5])])])])])])

(***************************************************************************)
(* Media                                                                   *)
(***************************************************************************)
FeedShare == <<"f","e","e","d","s","h","a","r","e">>
DocumentPlayer == <<"D","o","c","u","m","e","n","t"," ","p","l","a","y","e","r">>
PlayerFor == DocumentPlayer \o <<" ","f","o","r">>
PlayerForColon == PlayerFor \o <<":">>

\* media_is_video(post_container): one of the five video markers is present
media_is_video(c) == c.video_markers # {}

\* the iframe[title*='Document player'] of the container, or None
document_iframe(c) ==
    IF c.iframe_title # None /\ Contains(c.iframe_title.text, DocumentPlayer)
    THEN c.iframe_title ELSE None

\* media_is_carousel(post_container)
media_is_carousel(c) == c.carousel_markers # {} \/ document_iframe(c) # None

\* get_images_info(post_container)
get_images_info(c) ==
    LET feed(link) == /\ link.img # None
                      /\ link.img.src # None
                      /\ Contains(link.img.src.text, FeedShare)
        kept == SelectSeq(c.image_links, feed)
    IN  [k \in 1..Len(kept) |-> kept[k].img.src.text]

AllDigits(s) == s # <<>> /\ \A k \in 1..Len(s) : s[k] \in Digits

\* n as str(n) writes it, with at least `width` digits as {n:02d} does
IntStr(n, width) == IF n < 0 THEN <<"-">> \o NumStr(-n, width - 1) ELSE NumStr(n, width)

\* f"{minutes}:{seconds:02d}" for a number of seconds
minutes_seconds(seconds) == IntStr(seconds \div 60, 1) \o <<":">> \o IntStr(seconds % 60, 2)

\* re.search(r'(\d+)' + letter, duration): the number captured, 0 without
\* a match
iso_part(s, letter) ==
    LET hits == {a \in 1..Len(s) :
                    s[a] \in Digits /\ RunEnd(s, a, Digits) < Len(s)
                    /\ s[RunEnd(s, a, Digits) + 1] = letter}
    IN  IF hits = {} THEN 0
        ELSE LET a == CHOOSE x \in hits : \A y \in hits : x <= y
             IN  int(SubSeq(s, a, RunEnd(s, a, Digits)))

\* the thumbnail loop of get_video_info: the first poster element whose
\* style holds url("..."), or that is a video tag with a poster attribute
\* and no style attribute
video_thumbnail(c) ==
    LET usable(p) == /\ p # None
                     /\ \/ p.style # None /\ p.style.url # None
                        \/ p.style = None /\ p.is_video /\ p.poster # None
        p == First(c.posters, usable)
    IN  IF p = None THEN <<>>
        ELSE IF p.style # None THEN p.style.url.text ELSE p.poster.text

\* the duration loop of get_video_info: the first duration element with
\* text decides
video_duration_text(c, default) ==
    LET shown(t) == strip(str_replace(clean(t), <<"-">>, <<>>))
        texts == [k \in 1..Len(c.duration_texts) |-> shown(c.duration_texts[k])]
        found == First([k \in 1..Len(texts) |-> Elem(texts[k])], LAMBDA e : e.text # <<>>)
    IN  IF found = None THEN default
        ELSE LET t == found.text
                 colon == Find(t, <<":">>)
             IN  IF colon > 0 /\ AllDigits(SubSeq(t, 1, colon - 1))
                    /\ AllDigits(SubSeq(t, colon + 1, Len(t)))
                 THEN t
                 ELSE IF AllDigits(t) THEN minutes_seconds(int(t))
                 ELSE default

\* int(video_element["data-duration"]) and what follows; a value int()
\* rejects leaves the duration as it is
video_data_duration(c, current) ==
    IF c.data_duration = None THEN current
    ELSE LET t == strip(c.data_duration.text)
         IN  IF AllDigits(t) THEN minutes_seconds(int(t))
             ELSE IF t # <<>> /\ t[1] = "-" /\ AllDigits(Tail(t)) THEN minutes_seconds(-int(Tail(t)))
             ELSE IF t # <<>> /\ t[1] = "+" /\ AllDigits(Tail(t)) THEN minutes_seconds(int(Tail(t)))
             ELSE current

\* the script loop of get_video_info.  A script is [kind, duration]:
\*   "no_string"  script.string is None: json.loads raises TypeError,
\*                which the loop does not catch
\*   "invalid"    json.loads raises JSONDecodeError
\*   "other"      JSON that is no object
\*   "object"     an object; duration is its "duration" string or None
RECURSIVE video_script_duration(_, _)
video_script_duration(scripts, current) ==
    IF scripts = <<>> THEN Elem(current)
    ELSE LET s == scripts[1]
         IN  IF s.kind = "no_string" THEN [error |-> "TypeError"]
             ELSE IF s.kind = "object" /\ s.duration # None
                     /\ OccursAt(s.duration.text, <<"P", "T">>, 1)
             THEN Elem(IntStr(iso_part(s.duration.text, "M"), 1) \o <<":">>
                       \o IntStr(iso_part(s.duration.text, "S"), 2))
             ELSE video_script_duration(Tail(scripts), current)

ZeroDuration == <<"0", ":", "0", "0">>

\* get_video_info(post_container): [thumbnail, duration], or an exception
get_video_info(c) ==
    LET d == video_script_duration(c.ld_scripts,
                 video_data_duration(c, video_duration_text(c, ZeroDuration)))
    IN  IF "error" \in DOMAIN d THEN Raised("TypeError")
        ELSE [raised |-> FALSE, thumbnail |-> video_thumbnail(c), duration |-> d.text]

\* get_carousel_info(post_container)
get_carousel_info(c) ==
    LET iframe == document_iframe(c)
        title == IF iframe = None THEN <<>>
                 ELSE IF Contains(iframe.text, PlayerForColon)
                 THEN strip(str_replace(iframe.text, PlayerForColon, <<>>))
                 ELSE IF Contains(iframe.text, PlayerFor)
                 THEN strip(str_replace(iframe.text, PlayerFor, <<>>))
                 ELSE iframe.text
    IN  [type |-> "carousel",
         title |-> IF title # <<>> THEN title
                   ELSE IF c.doc_title # None THEN clean(c.doc_title.text) ELSE <<>>]

\* get_final_media_info with the document check before the video check
get_final_media_info_carousel_first(c) ==
    IF media_is_carousel(c) THEN
        [type |-> "carousel", title |-> get_carousel_info(c).title,
         info |-> "Images not visible in the HTML"]
    ELSE IF media_is_video(c) THEN
        LET video_info == get_video_info(c)
        IN  IF video_info.raised THEN video_info
            ELSE [type |-> "video", thumbnail |-> video_info.thumbnail,
                  duration |-> video_info.duration]
    ELSE IF get_images_info(c) # <<>> THEN
        [type |-> "image", urls |-> get_images_info(c)]
    ELSE [type |-> "none"]

\* get_final_media_info(post_container): the media record, or an exception
get_final_media_info(c) ==
    IF media_is_video(c) THEN
        LET video_info == get_video_info(c)
        IN  IF video_info.raised THEN video_info
            ELSE [type |-> "video", thumbnail |-> video_info.thumbnail,
                  duration |-> video_info.duration]
    ELSE IF media_is_carousel(c) THEN
        [type |-> "carousel", title |-> get_carousel_info(c).title,
         info |-> "Images not visible in the HTML"]
    ELSE IF get_images_info(c) # <<>> THEN
        [type |-> "image", urls |-> get_images_info(c)]
    ELSE [type |-> "none"]

(***************************************************************************)
(* process_posts                                                           *)
(***************************************************************************)
BASE_ID == 1
MAX_POSTS == 11

\* get_posts without the limit
get_posts_unlimited(document) == document

\* get_posts(soup): the first MAX_POSTS post containers of the document
get_posts(document) == Slice(document, 1, MAX_POSTS)

\* re.search(r'(\d+\s*[hdwmy]+o?)', date_text).group(1) on the cleaned text
\* of the sub-description; "" without the element or without a match
rel_date_of(c) ==
    LET s == IF c.sub_description = None THEN <<>> ELSE clean(c.sub_description.text)
        units == {"h", "d", "w", "m", "y"}
        spaces == {" ", "\t", "\n"}
        gap(a) == LET r == RunEnd(s, a, Digits)
                  IN  IF r < Len(s) /\ s[r + 1] \in spaces THEN RunEnd(s, r + 1, spaces) ELSE r
        isMatch(a) == s[a] \in Digits /\ gap(a) < Len(s) /\ s[gap(a) + 1] \in units
        hits == {a \in 1..Len(s) : isMatch(a)}
    IN  IF hits = {} THEN <<>>
        ELSE LET a == CHOOSE x \in hits : \A y \in hits : x <= y
                 e == RunEnd(s, gap(a) + 1, units)
             IN  SubSeq(s, a, IF e < Len(s) /\ s[e + 1] = "o" THEN e + 1 ELSE e)

\* the normalization without the lower-casing
normalized_keeping_case(t) ==
    With([unmarked \in {str_replace(t, <<"#">>, <<>>)} |-> str_replace(unmarked, <<" ">>, <<>>)])

\* text.lower().replace('#', '').replace(' ', '')
normalized(t) ==
    With([lowered \in {lower(t)} |->
    With([unmarked \in {str_replace(lowered, <<"#">>, <<>>)} |->
      str_replace(unmarked, <<" ">>, <<>>)])])

\* the record of a regular post
post_record(index, date, post_content, media_info, author_info, engagement) ==
    [id |-> BASE_ID + index,
     post_type |-> "post",
     date |-> date,
     content |-> post_content,
     slug |-> generate_post_slug(post_content),
     media |-> media_info,
     author |-> author_info,
     social_engagement |-> engagement]

\* the original_post part of the record of a repost
original_post_record(original_author, post_content, media_info) ==
    [author |-> original_author,
     content |-> post_content,
     slug |-> generate_post_slug(post_content),
     media |-> media_info]

\* the record of a repost
repost_record(index, date, author_info, engagement, original_post) ==
    [id |-> BASE_ID + index,
     post_type |-> "repost",
     date |-> date,
     author |-> author_info,
     social_engagement |-> engagement,
     original_post |-> original_post]

\* the record of a repost after post["reposter_comment"] = reposter_comment
commented_record(index, date, author_info, engagement, original_post, reposter_comment) ==
    [id |-> BASE_ID + index,
     post_type |-> "repost",
     date |-> date,
     author |-> author_info,
     social_engagement |-> engagement,
     original_post |-> original_post,
     reposter_comment |-> reposter_comment]

\* one iteration of the loop of process_posts: the post built from the
\* container at index `index`, or the exception that ends the run.  The
\* resolvers are called in the order of the code; get_date and
\* get_final_media_info are the calls that can raise.
build_post(c, index, clock, rnd) ==
    With([repost \in {is_repost(c)} |->
    With([post_content \in {get_post_description(c)} |->
    With([author_info \in {get_profile_info(c, UnknownUser, repost)} |->
    With([engagement \in {get_engagement(c)} |->
    With([dated \in {get_date(rel_date_of(c), c, clock, rnd)} |->
      IF dated.raised THEN dated
      ELSE
    With([media_info \in {get_final_media_info(c)} |->
      IF "raised" \in DOMAIN media_info THEN media_info
      ELSE IF ~repost
      THEN [raised |-> FALSE,
            post |-> post_record(index, dated.value, post_content, media_info,
                                 author_info, engagement)]
      ELSE
    With([original_author \in {get_original_author_info(c)} |->
    With([reposter_comment \in {get_reposter_comment(c)} |->
    With([original_post \in {original_post_record(original_author, post_content, media_info)} |->
      IF reposter_comment # <<>>
         /\ normalized(reposter_comment) # normalized(post_content)
      THEN [raised |-> FALSE,
            post |-> commented_record(index, dated.value, author_info, engagement,
                                      original_post, reposter_comment)]
      ELSE [raised |-> FALSE,
            post |-> repost_record(index, dated.value, author_info, engagement,
                                   original_post)]])])])])])])])])])

(***************************************************************************)
(* Specification SpecName: clean_name applied to a name, then to its result *)
(***************************************************************************)
NameChars == {"a", "t", " ", Bullet}

InitName ==
    /\ pc = "name"
    /\ raw_name \in SeqsUpTo(NameChars, MaxNameLen)
    /\ cleaned_name = <<>>
    /\ SlugIdle /\ DateIdle /\ ClockIdle /\ NodeIdle /\ RecordIdle /\ BatchIdle /\ ResolverIdle /\ RunIdle /\ RestIdle

CleanName ==
    /\ pc = "name"
    /\ cleaned_name' = <<clean_name(raw_name)>>
    /\ pc' = "cleaned"
    /\ UNCHANGED <<restVars, raw_name, slugVars, dateVars, now, post_container, resolverVars, runVars, recordVars, batchVars>>

CleanNameAgain ==
    /\ pc = "cleaned"
    /\ cleaned_name' = Append(cleaned_name, clean_name(cleaned_name[1]))
    /\ pc' = "recleaned"
    /\ UNCHANGED <<restVars, raw_name, slugVars, dateVars, now, post_container, resolverVars, runVars, recordVars, batchVars>>

NextName == CleanName \/ CleanNameAgain

SpecName == InitName /\ [][NextName]_vars

\* C2: clean_name is idempotent: cleaning a cleaned name returns it unchanged
C2_CleanNameIdempotent ==
    pc = "recleaned" => cleaned_name[2] = cleaned_name[1]

(***************************************************************************)
(* Specification SpecSlug: create_slug applied to a text                   *)
(***************************************************************************)
SlugChars == {"A", "b", "1", "-", " "}

\* n times the letter a
Padding(n) == [k \in 1..n |-> "a"]

\* texts around the length limit: a run of letters, then a short tail
SlugTexts ==
    {Padding(n) \o tail :
        n \in {0} \cup {SLUG_MAX - k : k \in 0..MaxSlugTail},
        tail \in SeqsUpTo(SlugChars, MaxSlugTail)}

InitSlug ==
    /\ pc = "text"
    /\ text \in SlugTexts
    /\ slug = <<>>
    /\ NameIdle /\ DateIdle /\ ClockIdle /\ NodeIdle /\ RecordIdle /\ BatchIdle /\ ResolverIdle /\ RunIdle /\ RestIdle

CreateSlug ==
    /\ pc = "text"
    /\ slug' = create_slug(text)
    /\ pc' = "slug"
    /\ UNCHANGED <<restVars, text, nameVars, dateVars, now, post_container, resolverVars, runVars, recordVars, batchVars>>

\* a second call on the same text
CreateSlugAgain ==
    /\ pc = "slug"
    /\ slug' = create_slug(text)
    /\ pc' = "slug2"
    /\ UNCHANGED <<restVars, text, nameVars, dateVars, now, post_container, resolverVars, runVars, recordVars, batchVars>>

NextSlug == CreateSlug \/ CreateSlugAgain

SpecSlug == InitSlug /\ [][NextSlug]_vars

\* C3: a slug holds only a-z, 0-9 and hyphens, does not start or end with a
\* hyphen, is at most SLUG_MAX long, and a second call returns the same slug
C3_SlugWellFormed ==
    /\ pc \in {"slug", "slug2"} =>
        /\ \A k \in 1..Len(slug) : IsSlugChar(slug[k]) \/ slug[k] = "-"
        /\ Len(slug) <= SLUG_MAX
        /\ slug # <<>> => slug[1] # "-" /\ slug[Len(slug)] # "-"
    /\ pc = "slug2" => slug = create_slug(text)

(***************************************************************************)
(* Specification SpecDate: one call of get_date                            *)
(***************************************************************************)
\* the clock readings considered
Nows == {Instant(2025, 3, 31, 10, 30, 15, 250),
         Instant(2024, 2, 29, 23, 50, 0, 0),
         Instant(2026, 1, 15, 0, 10, 59, 999)}

\* the relative-age strings process_posts can pass: a magnitude and a unit
\* letter run, or the empty string when its pattern does not match
AgeUnits == {<<"h">>, <<"d">>, <<"w">>, <<"m", "o">>, <<"y">>, <<"m">>}
AgeTexts == {<<>>} \cup {NumStr(n, 1) \o u : n \in 0..MaxAge, u \in AgeUnits}

\* activity ids: id >> 25 is q, so the shifts 24, 23, 22 give 2q, 4q, 8q
ActivityIds ==
    {[q |-> [day |-> 0, ms |-> 0], b |-> 0],            \* every shift gives the epoch itself
     [q |-> [day |-> 1000, ms |-> 43200123], b |-> 5],  \* 4q is before now: shift 23
     [q |-> [day |-> 2000, ms |-> 1], b |-> 7],         \* 2q is before now: shift 24
     [q |-> [day |-> 5000, ms |-> 86399999], b |-> 0],  \* q is before now: shift 25
     [q |-> [day |-> 6000, ms |-> 0], b |-> 1]}         \* no shift gives a past instant

DateContainers ==
    {[EmptyContainer EXCEPT !.activity_ids = ids] :
        ids \in SeqsUpTo(ActivityIds \cup {Broken}, MaxIds)}

\* the draws considered of randint(a, b): both ends of the range, and 0
Extremes(a, b) == {a, b} \cup ({0} \cap randint(a, b))

InitDate ==
    /\ pc = "date"
    /\ now \in Nows
    /\ date_text \in AgeTexts
    /\ post_container \in DateContainers
    /\ formatted_date = <<>>
    /\ NameIdle /\ SlugIdle /\ RecordIdle /\ BatchIdle /\ ResolverIdle /\ RunIdle /\ RestIdle

GetDate ==
    /\ pc = "date"
    /\ \E rnd \in Jitter(date_text, Extremes) :
          formatted_date' = get_date(date_text, post_container, now, rnd)
    /\ pc' = "dated"
    /\ UNCHANGED <<restVars, nameVars, slugVars, now, date_text, post_container, resolverVars, runVars, recordVars, batchVars>>

NextDate == GetDate

SpecDate == InitDate /\ [][NextDate]_vars

\* the instant stage 1 decodes for the container of the state
Precise == extract_linkedin_activity_timestamp(post_container, now)

\* C6: with no decodable identifier and an age of N >= 1 days, get_date
\* returns an instant within 12 hours of now - N days, and never now
C6_DayWindow ==
    (pc = "dated" /\ Precise = None /\ unit_of(date_text) = "d" /\ first_number(date_text) >= 1) =>
        /\ ~formatted_date.raised
        /\ NotAfter(MinusDelta(now, first_number(date_text), 12 * 60), formatted_date.instant)
        /\ NotAfter(formatted_date.instant, MinusDelta(now, first_number(date_text), -12 * 60))
        /\ formatted_date.instant # now

\* C7: when stage 1 decodes an instant, get_date returns that instant,
\* formatted, whatever the relative-age string is, and stage 2 is not run
C7_PreciseFirst ==
    (pc = "dated" /\ Precise # None) =>
        /\ ~formatted_date.raised
        /\ formatted_date.stage = 1
        /\ formatted_date.value = strftime(Precise)
        /\ Len(formatted_date.value) = 19

\* C7 (witness): a decoded identifier beside a relative age that stage 2
\* would have parsed
C7_Witness ==
    /\ pc = "dated"
    /\ Precise # None
    /\ unit_of(date_text) = "mo"
    /\ formatted_date.stage = 1

\* now with year and month shifted back by the months of the age string
\* (ValueError when that month has no such day)
MonthsBack == LET civil == CivilOf(now.day)
                  r == rollover(civil.month - first_number(date_text), civil.year)
              IN  replace(now, r.year, r.month)

\* C14 as stated: with no decodable identifier and an age of k months, the
\* instant get_date returns is at most 15 days before or after now shifted
\* back k months, whatever the jitter draws
C14_MonthWindow ==
    (/\ pc = "dated" /\ Precise = None /\ unit_of(date_text) = "mo"
     /\ first_number(date_text) >= 0 /\ MonthsBack # ValueError) =>
        /\ ~formatted_date.raised
        /\ NotAfter(MinusDelta(MonthsBack, 15, 0), formatted_date.instant)
        /\ NotAfter(formatted_date.instant, MinusDelta(MonthsBack, -15, 0))

(***************************************************************************)
(* Specification SpecMedia: one call of get_final_media_info               *)
(***************************************************************************)
\* image sources: two feed images, and one that is no feed image
FeedUrl(n) == <<"/">> \o FeedShare \o <<"/">> \o NumStr(n, 1)
ImageLinks ==
    {[img |-> None],
     [img |-> [src |-> None]],
     [img |-> [src |-> Elem(<<"/", "l", "o", "g", "o">>)]],
     [img |-> [src |-> Elem(FeedUrl(1))]],
     [img |-> [src |-> Elem(FeedUrl(2))]]}

VideoMarkerSets == {{}, {".video-js"}, {".update-components-linkedin-video", ".vjs-tech"}}
CarouselMarkerSets == {{}, {".document-s-container"}}
IframeTitles == {None, Elem(PlayerForColon \o <<" ", "Q", "3">>), Elem(<<"A", "d">>)}
LdScripts ==
    {<<>>,
     <<[kind |-> "no_string", duration |-> None]>>,
     <<[kind |-> "invalid", duration |-> None],
       [kind |-> "object", duration |-> Elem(<<"P", "T", "1", "M", "5", "S">>)]>>}

MediaContainers ==
    {[EmptyContainer EXCEPT !.video_markers = v, !.carousel_markers = d,
                            !.iframe_title = f, !.image_links = links,
                            !.ld_scripts = scripts] :
        v \in VideoMarkerSets, d \in CarouselMarkerSets, f \in IframeTitles,
        links \in SeqsUpTo(ImageLinks, MaxImages), scripts \in LdScripts}

InitMedia ==
    /\ pc = "node"
    /\ post_container \in MediaContainers
    /\ media = <<>> /\ post = <<>> /\ rerun = <<>>
    /\ NameIdle /\ SlugIdle /\ DateIdle /\ ClockIdle /\ BatchIdle /\ ResolverIdle /\ RunIdle /\ RestIdle

GetFinalMediaInfo ==
    /\ pc = "node"
    /\ media' = get_final_media_info(post_container)
    /\ pc' = "classified"
    /\ UNCHANGED <<restVars, nameVars, slugVars, dateVars, now, post_container, resolverVars, runVars, post, rerun, batchVars>>

NextMedia == GetFinalMediaInfo
SpecMedia == InitMedia /\ [][NextMedia]_vars

MediaReturned == pc = "classified" /\ "raised" \notin DOMAIN media

\* C4: the media record has one type, the first that matches in the order
\* video, carousel, image, none; an image record lists the feed image URLs
\* in document order
C4_FirstMatchWins ==
    MediaReturned =>
        /\ media.type \in {"video", "carousel", "image", "none"}
        /\ media.type = "video" <=> media_is_video(post_container)
        /\ media.type = "carousel" <=>
              ~media_is_video(post_container) /\ media_is_carousel(post_container)
        /\ media.type = "image" <=>
              /\ ~media_is_video(post_container)
              /\ ~media_is_carousel(post_container)
              /\ get_images_info(post_container) # <<>>
        /\ media.type = "image" =>
              /\ DOMAIN media = {"type", "urls"}
              /\ media.urls = get_images_info(post_container)
              /\ \A k \in 1..Len(media.urls) : Contains(media.urls[k], FeedShare)

\* C4 (witness): a container with a video marker, a document marker and a
\* feed image is classified as video
C4_Witness ==
    /\ MediaReturned
    /\ post_container.video_markers # {}
    /\ post_container.carousel_markers # {}
    /\ get_images_info(post_container) # <<>>
    /\ media.type = "video"

(***************************************************************************)
(* Specification SpecRecord: the loop body of process_posts run on one     *)
(* container, and then a second time on the same container                 *)
(***************************************************************************)
AcmeHeaderText == <<"A","c","m","e"," ","I","n","c"," ">> \o RepostedThis
JaneDoe == <<"J","a","n","e"," ","D","o","e">>
AcmeInc == <<"A","c","m","e"," ","I","n","c">>
BobRay == <<"B","o","b"," ","R","a","y">>

\* an actor container with a name, under the given parent element
Actor(name, parent) ==
    [parent |-> [node |-> parent, markup |-> parent], in_wrapper |-> FALSE, in_pt3 |-> FALSE,
     title |-> [text |-> name, name |-> Elem(name)],
     avatar |-> [is_img |-> TRUE, src |-> Elem("avatar.jpg")],
     description |-> Elem(<<"C", "E", "O">>),
     link |-> None]

\* a content region with its text in a span
Region(body, in_update_wrapper) ==
    [in_pt3 |-> FALSE, in_update_wrapper |-> in_update_wrapper,
     span |-> Elem(body), text |-> body, toggle |-> FALSE]

Bodies == {<<"H","i"," ","h","a","s","h","t","a","g","#","A","I">>, <<"h","i"," ","a","i">>}
Regions == {Region(b, w) : b \in Bodies, w \in BOOLEAN}
Commentaries == {None, [span |-> Elem(<<"h","i"," ","a","i">>)], [span |-> Elem(<<"O","k">>)]}
Headers == {None, [text |-> AcmeHeaderText, in_text_view |-> TRUE, img |-> None]}
ActorLists == {<<>>,
               <<Actor(JaneDoe \o JaneDoe, "update")>>,
               <<Actor(JaneDoe \o JaneDoe, "update"), Actor(BobRay, "card")>>}
SubDescriptions == {None,
                    Elem(<<"3", "d", " ", Bullet, " ", "E", "d", "i", "t", "e", "d">>),
                    Elem(<<"1", "m", "o", " ", Bullet>>)}
RecordIds == {<<>>, <<[q |-> [day |-> 2000, ms |-> 1], b |-> 7]>>}

\* no region, one region, or a region followed by a second one
RegionLists ==
    {<<>>} \cup {<<r>> : r \in Regions}
           \cup {<<Region(b, FALSE), r>> : b \in Bodies, r \in Regions}

\* containers that differ in their author and content regions ...
ContentContainers ==
    {[EmptyContainer EXCEPT !.header = h, !.actors = a, !.descriptions = d,
                            !.commentary = m] :
        h \in Headers, a \in ActorLists, d \in RegionLists, m \in Commentaries}

\* ... and containers that differ in what get_date reads
DatedContainers ==
    {[EmptyContainer EXCEPT !.header = h, !.actors = a,
                            !.descriptions = <<Region(<<"h","i"," ","a","i">>, FALSE)>>,
                            !.sub_description = s, !.activity_ids = ids] :
        h \in Headers, a \in ActorLists \ {<<>>}, s \in SubDescriptions, ids \in RecordIds}

RecordContainers == ContentContainers \cup DatedContainers

\* the draws considered of randint(a, b): both ends of the range
Ends(a, b) == {a, b}

InitRecord ==
    /\ pc = "container"
    /\ now \in Nows
    /\ post_container \in RecordContainers
    /\ media = <<>> /\ post = <<>> /\ rerun = <<>>
    /\ NameIdle /\ SlugIdle /\ DateIdle /\ BatchIdle /\ ResolverIdle /\ RunIdle /\ RestIdle

\* the loop body for the container, at index 0
Assemble ==
    /\ pc = "container"
    /\ \E rnd \in Jitter(rel_date_of(post_container), Ends) :
          post' = build_post(post_container, 0, now, rnd)
    /\ pc' = "assembled"
    /\ UNCHANGED <<restVars, nameVars, slugVars, dateVars, now, post_container, resolverVars, runVars, media, rerun, batchVars>>

\* the loop body once more, at the same reading of the clock
AssembleAgain ==
    /\ pc = "assembled"
    /\ \E rnd \in Jitter(rel_date_of(post_container), Ends) :
          rerun' = build_post(post_container, 0, now, rnd)
    /\ pc' = "again"
    /\ UNCHANGED <<restVars, nameVars, slugVars, dateVars, now, post_container, resolverVars, runVars, media, post, batchVars>>

\* the loop body once more, at a later reading of the clock
AssembleLater ==
    /\ pc = "assembled"
    /\ \E t \in Nows :
          /\ t # now /\ NotAfter(now, t)
          /\ now' = t
          /\ \E rnd \in Jitter(rel_date_of(post_container), Ends) :
                rerun' = build_post(post_container, 0, t, rnd)
    /\ pc' = "later"
    /\ UNCHANGED <<restVars, nameVars, slugVars, dateVars, post_container, resolverVars, runVars, media, post, batchVars>>

NextRecord == Assemble \/ AssembleAgain \/ AssembleLater
SpecRecord == InitRecord /\ [][NextRecord]_vars

Assembled == pc \in {"assembled", "again", "later"} /\ ~post.raised
BothAssembled == pc \in {"again", "later"} /\ ~post.raised /\ ~rerun.raised

\* C5: a repost record has the key reposter_comment only when the comment
\* is not empty and, lower-cased and without '#' and spaces, differs from
\* the content of the original post folded the same way
C5_DistinctComment ==
    (Assembled /\ "reposter_comment" \in DOMAIN post.post) =>
        LET fold(t) == SelectSeq(lower(t), LAMBDA ch : ch \notin {"#", " "})
        IN  /\ post.post.post_type = "repost"
            /\ post.post.reposter_comment # <<>>
            /\ fold(post.post.reposter_comment) # fold(post.post.original_post.content)

\* C5 (witness): a repost whose comment differs from the original content
\* only by case, '#' and spaces, and is left out of the record
C5_Witness ==
    /\ Assembled
    /\ post.post.post_type = "repost"
    /\ get_reposter_comment(post_container) # <<>>
    /\ get_reposter_comment(post_container) # post.post.original_post.content
    /\ "reposter_comment" \notin DOMAIN post.post

\* C9 as stated: the second run returns the record of the first run
C9_Deterministic ==
    BothAssembled => rerun.post = post.post

\* C9: two runs on the same container return records equal in every field
\* other than date; the date is equal as well when stage 1 decodes it and
\* the clock reads the same in both runs
C9_SameButDate ==
    BothAssembled =>
        /\ [rerun.post EXCEPT !.date = <<>>] = [post.post EXCEPT !.date = <<>>]
        /\ (pc = "again" /\ Precise # None) => rerun.post = post.post

\* C9 (witness): two runs at the same reading of the clock whose records
\* differ in the date
C9_Witness ==
    /\ BothAssembled
    /\ pc = "again"
    /\ rerun.post.date # post.post.date

\* the container of the scenario: the header with the marker phrase, one
\* author block named "Jane DoeJane Doe", one content region
Scenario ==
    /\ post_container.header # None
    /\ post_container.header.text = AcmeHeaderText
    /\ Len(post_container.actors) = 1
    /\ post_container.actors[1].title.text = JaneDoe \o JaneDoe
    /\ Len(post_container.descriptions) = 1
    /\ \/ post_container.commentary = None
       \/ content_of(post_container.commentary.span.text)
            = content_of(post_container.descriptions[1].span.text)

\* C10 as stated: in the scenario the record is a repost, the reposter is
\* named "Jane Doe", the original author has the cleaned name of the author
\* block, and there is no reposter_comment
C10_ReposterJaneDoe ==
    (Assembled /\ Scenario) =>
        /\ post.post.post_type = "repost"
        /\ post.post.author.name = JaneDoe
        /\ post.post.original_post.author.name
             = clean_name(clean(post_container.actors[1].title.name.text))
        /\ "reposter_comment" \notin DOMAIN post.post

\* C10: in the scenario the record is a repost, the reposter has the name
\* that precedes the marker phrase, "Acme Inc", the original author is
\* "Jane Doe", the cleaned name of the author block, and there is no
\* reposter_comment
C10_ReposterFromHeader ==
    (Assembled /\ Scenario) =>
        /\ post.post.post_type = "repost"
        /\ post.post.author.name = AcmeInc
        /\ post.post.original_post.author.name = JaneDoe
        /\ "reposter_comment" \notin DOMAIN post.post

\* C10 (witness): the scenario, assembled, with the content region also
\* found as commentary
C10_Witness ==
    /\ Assembled
    /\ Scenario
    /\ post_container.commentary # None
    /\ post.post.original_post.content # <<>>

(***************************************************************************)
(* Specification SpecBatch: process_posts on a document                    *)
(***************************************************************************)
\* the k-th container of a document: its reaction count is k
PlainNode(k) ==
    [EmptyContainer EXCEPT !.likes = Elem(NumStr(k, 1)),
                           !.descriptions = <<Region(<<"h","i"," ","a","i">>, FALSE)>>]

\* a container that shows the relative age "1mo"
MonthNode(k) ==
    [PlainNode(k) EXCEPT !.sub_description = Elem(<<"1", "m", "o", " ", Bullet>>)]

\* a video container with an empty JSON-LD script
VideoNode(k) ==
    [PlainNode(k) EXCEPT !.video_markers = {".video-js"},
                         !.ld_scripts = <<[kind |-> "no_string", duration |-> None]>>]

\* a repost with the marker phrase in its header
RepostNode(k) ==
    [PlainNode(k) EXCEPT !.header = [text |-> AcmeHeaderText, in_text_view |-> TRUE,
                                     img |-> None],
                         !.actors = <<Actor(JaneDoe \o JaneDoe, "update")>>]

\* documents of n containers, all plain but possibly the one at position p
Documents ==
    {[k \in 1..n |-> PlainNode(k)] : n \in 0..MaxNodes}
    \cup {[k \in 1..n |-> IF k # p THEN PlainNode(k)
                          ELSE IF kind = "month" THEN MonthNode(k)
                          ELSE IF kind = "video" THEN VideoNode(k)
                          ELSE RepostNode(k)] :
            n \in 1..MaxNodes, p \in 1..MaxNodes, kind \in {"month", "video", "repost"}}

InitBatch ==
    /\ pc = "document"
    /\ now \in Nows
    /\ soup \in Documents
    /\ posts = <<>> /\ i = 0 /\ results = <<>>
    /\ NameIdle /\ SlugIdle /\ DateIdle /\ NodeIdle /\ RecordIdle /\ ResolverIdle /\ RunIdle /\ RestIdle

\* posts = get_posts(soup); results = []
GetPosts ==
    /\ pc = "document"
    /\ posts' = get_posts(soup)
    /\ i' = 0
    /\ results' = <<>>
    /\ pc' = "loop"
    /\ UNCHANGED <<restVars, nameVars, slugVars, dateVars, now, post_container, resolverVars, runVars, recordVars, soup>>

\* one iteration of the loop: the record is appended, or the exception of
\* a resolver leaves process_posts
ProcessPost ==
    /\ pc = "loop"
    /\ i < Len(posts)
    /\ \E rnd \in Jitter(rel_date_of(posts[i + 1]), Ends) :
          LET built == build_post(posts[i + 1], i, now, rnd)
          IN  IF built.raised
              THEN /\ pc' = "raised"
                   /\ UNCHANGED <<i, results>>
              ELSE /\ results' = Append(results, built.post)
                   /\ i' = i + 1
                   /\ pc' = "loop"
    /\ UNCHANGED <<restVars, nameVars, slugVars, dateVars, now, post_container, resolverVars, runVars, recordVars, soup, posts>>

\* return results
ReturnResults ==
    /\ pc = "loop"
    /\ i = Len(posts)
    /\ pc' = "returned"
    /\ UNCHANGED <<restVars, nameVars, slugVars, dateVars, now, post_container, resolverVars, runVars, recordVars, batchVars>>

NextBatch == GetPosts \/ ProcessPost \/ ReturnResults
SpecBatch == InitBatch /\ [][NextBatch]_vars

\* C1: the k-th record is built from the k-th container of the document and
\* has the id BASE_ID + k - 1 (k = 1..), and process_posts returns
\* min(N, MAX_POSTS) records for a document of N containers
C1_DenseIds ==
    /\ pc \in {"loop", "raised", "returned"} =>
          \A k \in 1..Len(results) :
              /\ results[k].id = BASE_ID + k - 1
              /\ k <= Len(soup)
              /\ results[k].social_engagement = get_engagement(soup[k])
              /\ results[k].social_engagement.likes = k
    /\ pc = "returned" =>
          Len(results) = (IF Len(soup) < MAX_POSTS THEN Len(soup) ELSE MAX_POSTS)

\* C1 (witness): a document of more than MAX_POSTS containers, processed
C1_Witness ==
    /\ pc = "returned"
    /\ Len(soup) > MAX_POSTS
    /\ Len(results) = MAX_POSTS
    /\ results[MAX_POSTS].id = BASE_ID + MAX_POSTS - 1

\* C8 as stated: no resolver raises, so process_posts never ends with an
\* exception and a container never blocks those after it
C8_NeverAborts ==
    pc # "raised"

(***************************************************************************)
(* Specification SpecCount: get_numeric_value with the three patterns of   *)
(* get_engagement, and get_engagement on a container whose count regions   *)
(* hold the text                                                           *)
(***************************************************************************)
MaxCountTokens == 3

\* the pieces the texts are made of
CountTokens == {<<"1">>, <<",">>, <<"2","0","4">>, <<" ">>, <<"x">>}
CountSuffixes == {<<>>, CommentWord \o <<"s">>, <<" ">> \o RepostWord,
                  <<" ">> \o CommentWord \o <<" ">> \o <<"7">>}

RECURSIVE Flatten(_)
Flatten(pieces) == IF pieces = <<>> THEN <<>> ELSE pieces[1] \o Flatten(Tail(pieces))

CountTexts ==
    {Flatten(pieces) \o suffix :
        pieces \in SeqsUpTo(CountTokens, MaxCountTokens), suffix \in CountSuffixes}

\* which of the four count regions the container has
CountRegions == {{}, {"likes"}, {"comments", "reposts"}, {"likes", "comments", "reposts_alt"}}

CountContainer(t, present) ==
    [EmptyContainer EXCEPT
        !.likes = IF "likes" \in present THEN Elem(t) ELSE None,
        !.comments = IF "comments" \in present THEN Elem(t) ELSE None,
        !.reposts = IF "reposts" \in present THEN Elem(t) ELSE None,
        !.reposts_alt = IF "reposts_alt" \in present THEN Elem(t) ELSE None]

InitCount ==
    /\ pc = "text"
    /\ count_text \in CountTexts
    /\ post_container \in {CountContainer(count_text, present) : present \in CountRegions}
    /\ resolved = <<>>
    /\ NameIdle /\ SlugIdle /\ DateIdle /\ ClockIdle /\ RecordIdle /\ BatchIdle /\ RunIdle /\ RestIdle

\* get_numeric_value(text, pattern) for each of the three patterns
GetNumericValue ==
    /\ pc = "text"
    /\ resolved' = [likes |-> get_numeric_value(count_text, <<>>),
                    comments |-> get_numeric_value(count_text, CommentWord),
                    reposts |-> get_numeric_value(count_text, RepostWord)]
    /\ pc' = "counted"
    /\ UNCHANGED <<restVars, nameVars, slugVars, dateVars, now, post_container, count_text, runVars,
                   recordVars, batchVars>>

\* get_engagement(post_container)
GetEngagement ==
    /\ pc = "text"
    /\ resolved' = get_engagement(post_container)
    /\ pc' = "engaged"
    /\ UNCHANGED <<restVars, nameVars, slugVars, dateVars, now, post_container, count_text, runVars,
                   recordVars, batchVars>>

NextCount == GetNumericValue \/ GetEngagement
SpecCount == InitCount /\ [][NextCount]_vars

\* the digits of a text, in order
DigitsOf(s) == SelectSeq(s, LAMBDA ch : ch \in Digits)

\* the stretch of digits and commas that starts at the first digit of s
FirstCount(s) ==
    LET a == CHOOSE x \in 1..Len(s) : s[x] \in Digits /\ \A y \in 1..(x - 1) : s[y] \notin Digits
    IN  SubSeq(s, a, RunEnd(s, a, Digits \cup {","}))

OneTwoZeroFour == <<"1", ",", "2", "0", "4">>

\* C11: get_numeric_value returns a natural number for every text and each
\* of the three patterns: the digits of the first captured group read as a
\* decimal number ("1,204" gives 1204), 0 for the empty text and for a text
\* the pattern does not match; the three counts of get_engagement are
\* natural numbers, 0 for a region the container does not have
C11_CountsAreNaturals ==
    /\ pc \in {"counted", "engaged"} =>
          resolved.likes \in Nat /\ resolved.comments \in Nat /\ resolved.reposts \in Nat
    /\ pc = "counted" =>
          /\ resolved.likes = IF DigitsOf(count_text) = <<>> THEN 0
                              ELSE int(DigitsOf(FirstCount(count_text)))
          /\ ~Contains(count_text, CommentWord) => resolved.comments = 0
          /\ ~Contains(count_text, RepostWord) => resolved.reposts = 0
          /\ resolved.comments # 0 =>
                \E a \in 1..Len(count_text), e \in 1..Len(count_text) :
                    /\ a <= e /\ count_text[a] \in Digits
                    /\ \A k \in a..e : count_text[k] \in Digits \cup {","}
                    /\ resolved.comments = int(DigitsOf(SubSeq(count_text, a, e)))
          /\ count_text = OneTwoZeroFour => resolved.likes = 1204
          /\ count_text = OneTwoZeroFour \o CommentWord \o <<"s">> => resolved.comments = 1204
          /\ count_text = OneTwoZeroFour \o <<" ">> \o RepostWord => resolved.reposts = 1204
    /\ pc = "engaged" =>
          /\ post_container.likes = None => resolved.likes = 0
          /\ post_container.comments = None => resolved.comments = 0
          /\ (post_container.reposts = None /\ post_container.reposts_alt = None)
                => resolved.reposts = 0
          /\ post_container.likes # None =>
                resolved.likes = get_numeric_value(clean(count_text), <<>>)

\* C11 (witness): the reaction count of a container whose likes region
\* reads "1,204" is 1204, and it has no comment region
C11_Witness ==
    /\ pc = "engaged"
    /\ count_text = OneTwoZeroFour
    /\ post_container.likes # None
    /\ post_container.comments = None
    /\ resolved.likes = 1204
    /\ resolved.comments = 0

(***************************************************************************)
(* Specification SpecRun: one run of CreateJSON.py as run_create_json of   *)
(* Re_Process_html_Batch.py starts it: the module setup, the main block    *)
(* around process_posts, and what the caller reads of the finished run     *)
(***************************************************************************)
\* os.path.dirname(path) of posixpath
dirname(path) ==
    LET slashes == {k \in 1..Len(path) : path[k] = "/"}
        last == CHOOSE a \in slashes : \A b \in slashes : a >= b
        head == IF slashes = {} THEN <<>> ELSE SubSeq(path, 1, last)
        kept == {k \in 1..Len(head) : head[k] # "/"}
    IN  IF kept = {} THEN head
        ELSE SubSeq(head, 1, CHOOSE a \in kept : \A b \in kept : a >= b)

\* OUTPUT_DIR of the module setup
output_dir(args) == IF Len(args) > 1 THEN args[2] ELSE dirname(args[1])

\* the lines the run prints that tell a failure
NoInputMessage == "ERROR: No input HTML file provided"
ErrorMessage == "ERROR: <the text of the exception>"
DoneMessage == "DONE: JSONs saved"
Traceback == "Traceback (most recent call last): ... FileNotFoundError"

\* the command lines considered
InputPath == <<"l","o","g","s","/","p",".","h","t","m","l">>
BarePath == <<"p",".","h","t","m","l">>
OutPath == <<"o","u","t">>
ArgLists == {<<>>, <<InputPath>>, <<BarePath>>, <<InputPath, OutPath>>, <<BarePath, OutPath>>}

\* the documents the input file may hold
RunDocuments == {d \in Documents : Len(d) <= 2}

\* what the run finds: can the output directory be made, can the input be
\* read, what does it hold, and how many files can be written
FileSystems ==
    [can_mkdir : BOOLEAN, readable : BOOLEAN, document : RunDocuments, room : 0..2]

InitRun ==
    /\ pc = "start"
    /\ now \in Nows
    /\ argv \in ArgLists
    /\ fs \in FileSystems
    /\ written = <<>> /\ stdout = <<>> /\ stderr = <<>>
    /\ returncode = <<>> /\ report = None
    /\ NameIdle /\ SlugIdle /\ DateIdle /\ NodeIdle /\ RecordIdle /\ BatchIdle /\ ResolverIdle /\ RestIdle

\* lines 17-42: the arguments are read and the output directory is made.
\* os.makedirs stands outside every try: its exception ends the run with
\* the traceback of the interpreter on the error stream and exit code 1
ModuleSetup ==
    /\ pc = "start"
    /\ IF argv = <<>>
       THEN /\ stdout' = Append(stdout, NoInputMessage)
            /\ returncode' = <<1>>
            /\ pc' = "exited"
            /\ UNCHANGED stderr
       ELSE IF output_dir(argv) = <<>> \/ ~fs.can_mkdir
       THEN /\ stderr' = Append(stderr, Traceback)
            /\ returncode' = <<1>>
            /\ pc' = "exited"
            /\ UNCHANGED stdout
       ELSE /\ pc' = "main"
            /\ UNCHANGED <<stdout, stderr, returncode>>
    /\ UNCHANGED <<restVars, nameVars, slugVars, dateVars, now, post_container, resolverVars,
                   recordVars, batchVars, argv, fs, written, report>>

\* with open(INPUT_HTML) ...: soup = BeautifulSoup(file, "html.parser"), or
\* the except clause of the main block
OpenInput ==
    /\ pc = "main"
    /\ IF fs.readable
       THEN /\ soup' = fs.document
            /\ pc' = "document"
            /\ UNCHANGED <<stdout, returncode>>
       ELSE /\ stdout' = Append(stdout, ErrorMessage)
            /\ returncode' = <<1>>
            /\ pc' = "exited"
            /\ UNCHANGED soup
    /\ UNCHANGED <<restVars, nameVars, slugVars, dateVars, now, post_container, resolverVars,
                   recordVars, posts, i, results, argv, fs, written, stderr, report>>

\* except Exception as e: print(f"ERROR: {str(e)}"); sys.exit(1), for the
\* exception that left process_posts
HandleException ==
    /\ pc = "raised"
    /\ stdout' = Append(stdout, ErrorMessage)
    /\ returncode' = <<1>>
    /\ pc' = "exited"
    /\ UNCHANGED <<restVars, nameVars, slugVars, dateVars, now, post_container, resolverVars,
                   recordVars, batchVars, argv, fs, written, stderr, report>>

\* one iteration of `for post in posts`: Post_<id>.json is written, or the
\* exception of open or json.dump reaches the except clause
WriteFile ==
    /\ pc = "returned"
    /\ Len(written) < Len(results)
    /\ IF Len(written) < fs.room
       THEN /\ written' = Append(written, results[Len(written) + 1].id)
            /\ UNCHANGED <<stdout, returncode, pc>>
       ELSE /\ stdout' = Append(stdout, ErrorMessage)
            /\ returncode' = <<1>>
            /\ pc' = "exited"
            /\ UNCHANGED written
    /\ UNCHANGED <<restVars, nameVars, slugVars, dateVars, now, post_container, resolverVars,
                   recordVars, batchVars, argv, fs, stderr, report>>

\* the summary and sys.exit(0); SystemExit is no Exception, so the except
\* clause does not catch it
ExitOk ==
    /\ pc = "returned"
    /\ Len(written) = Len(results)
    /\ stdout' = Append(stdout, DoneMessage)
    /\ returncode' = <<0>>
    /\ pc' = "exited"
    /\ UNCHANGED <<restVars, nameVars, slugVars, dateVars, now, post_container, resolverVars,
                   recordVars, batchVars, argv, fs, written, stderr, report>>

\* run_create_json after subprocess.run returned: True and the output of
\* the run, or False and the text of its error stream
RunCreateJson ==
    /\ pc = "exited"
    /\ report' = IF returncode = <<0>>
                 THEN [success |-> TRUE, shown |-> stdout]
                 ELSE [success |-> FALSE, shown |-> stderr]
    /\ pc' = "reported"
    /\ UNCHANGED <<restVars, nameVars, slugVars, dateVars, now, post_container, resolverVars,
                   recordVars, batchVars, argv, fs, written, stdout, stderr, returncode>>

\* subprocess.TimeoutExpired: the run is ended after 300 seconds
TimeoutExpired ==
    /\ pc \in {"main", "document", "loop", "returned"}
    /\ report' = [success |-> FALSE, shown |-> <<"Timeout">>]
    /\ pc' = "reported"
    /\ UNCHANGED <<restVars, nameVars, slugVars, dateVars, now, post_container, resolverVars,
                   recordVars, batchVars, argv, fs, written, stdout, stderr, returncode>>

NextRun ==
    \/ ModuleSetup \/ OpenInput \/ GetPosts \/ ProcessPost \/ ReturnResults
    \/ HandleException \/ WriteFile \/ ExitOk \/ RunCreateJson \/ TimeoutExpired
SpecRun == InitRun /\ [][NextRun]_vars

\* the run has ended by itself
Exited == pc = "exited" \/ (pc = "reported" /\ returncode # <<>>)

\* the output directory was there or made, the input was read, every
\* container get_posts returned was processed and a file was written for
\* every record
RunSucceeded ==
    /\ argv # <<>>
    /\ output_dir(argv) # <<>> /\ fs.can_mkdir
    /\ fs.readable
    /\ soup = fs.document
    /\ Len(results) = Len(get_posts(soup))
    /\ Len(written) = Len(results)
    /\ \A k \in 1..Len(results) : written[k] = results[k].id

\* the exit code is 0 exactly when the run succeeded
ExitCodeTellsSuccess == Exited => (returncode = <<0>> <=> RunSucceeded)

\* C12 as stated: the exit code is 0 exactly when the run succeeded, and a
\* run that failed has exit code nonzero and has left its error message on
\* the error stream, which is what the batch caller shows
C12_ErrorOnErrorStream ==
    Exited =>
        /\ returncode = <<0>> <=> RunSucceeded
        /\ returncode # <<0>> =>
              /\ stderr # <<>>
              /\ pc = "reported" => report.shown # <<>>

(***************************************************************************)
(* Specification SpecResolve: the classifier, the author resolvers and the *)
(* content resolvers, each called on one container                         *)
(***************************************************************************)
\* a header whose name element is followed by the phrase without whitespace
Acme == <<"A","c","m","e">>
GluedHeaderText == Acme \o RepostedThis
AlKim == <<"A","l"," ","K","i","m">>

\* an author block with every region the resolvers read; place is "top",
\* "wrapper" (inside the quoted-card wrapper) or "pt3" (inside .pt3)
Block(name, key, node, place) ==
    [parent |-> [node |-> node, markup |-> node],
     in_wrapper |-> place = "wrapper", in_pt3 |-> place = "pt3",
     title |-> [text |-> name, name |-> Elem(name)],
     avatar |-> [is_img |-> TRUE, src |-> Elem(key)],
     description |-> Elem(name \o <<" ", "C", "E", "O">>),
     link |-> [href |-> Elem(key)]]

\* the same block without the name span, without anything but the name,
\* with the phrase in its title text, and under a parent element of the
\* same markup as that of another block
Nameless(b) == [b EXCEPT !.title = None]
Bare(b) == [b EXCEPT !.avatar = None, !.description = None, !.link = None]
TitleMarked(b) == [b EXCEPT !.title.text = @ \o <<" ">> \o RepostedThis]
Twin(b, node) == [b EXCEPT !.parent.node = node]

Jane(place) == Block(JaneDoe \o JaneDoe, "jane", "update", place)
Bob(node, place) == Block(BobRay, "bob", node, place)

ResolveActorLists ==
    {<<>>,
     <<Jane("top")>>,
     <<Jane("top"), Bob("card", "top")>>,
     <<Jane("top"), Bob("update", "top")>>,
     <<Jane("top"), Twin(Jane("top"), "card")>>,
     <<Nameless(Jane("top")), Bare(Bob("card", "top"))>>,
     <<Jane("top"), Bob("card", "wrapper")>>,
     <<Nameless(Jane("top")), Nameless(Bob("card", "wrapper")), Bare(Bob("inner", "top"))>>,
     <<Jane("top"), Bob("card", "pt3")>>,
     <<Jane("top"), Bob("card", "top"), Block(AlKim, "al", "inner", "pt3")>>,
     <<TitleMarked(Jane("top"))>>,
     <<TitleMarked(Jane("top")), Bob("card", "top")>>,
     <<Block(<<Bullet, " ", "x">>, "x", "update", "top"), Bob("card", "top")>>}

ResolveHeaders ==
    {None,
     [text |-> AcmeHeaderText, in_text_view |-> TRUE, img |-> None],
     [text |-> GluedHeaderText, in_text_view |-> TRUE, img |-> [src |-> Elem("acme")]]}

ReshareMarkerSets == {{}, {".feed-shared-reshared-update"}}

\* content regions: outside and inside the quoted card (.pt3), and without
\* the span of the text
Outside(body) == Region(body, FALSE)
InCard(body) == [Region(body, FALSE) EXCEPT !.in_pt3 = TRUE]
Spanless(r) == [r EXCEPT !.span = None]

Ok == <<"O", "k">>
HiAi == <<"h","i"," ","a","i">>
TagAi == <<"h","a","s","h","t","a","g","#","A","I">>

ResolveRegionLists ==
    {<<>>,
     <<Outside(HiAi)>>,
     <<Spanless(Outside(HiAi))>>,
     <<InCard(HiAi)>>,
     <<Outside(Ok), InCard(HiAi)>>,
     <<InCard(Ok), InCard(HiAi)>>,
     <<Outside(Ok), Spanless(InCard(TagAi)), InCard(HiAi)>>,
     <<Outside(Ok), Region(TagAi, TRUE)>>,
     <<Spanless(Outside(Ok)), Outside(HiAi)>>,
     <<Outside(SharePointKeynote)>>}

ResolveCommentaries ==
    {None, [span |-> Elem(TagAi), in_pt3 |-> FALSE], [span |-> Elem(TagAi), in_pt3 |-> TRUE],
     [span |-> None, in_pt3 |-> FALSE]}

\* the containers that differ in what the classifier and the author
\* resolvers read ...
AuthorNodes ==
    {[EmptyContainer EXCEPT !.header = h, !.actors = a, !.reshare_markers = m,
                            !.has_wrapper = w, !.has_pt3 = p, !.descriptions = d] :
        h \in ResolveHeaders, a \in ResolveActorLists, m \in ReshareMarkerSets,
        w \in BOOLEAN, p \in BOOLEAN,
        d \in {<<Outside(HiAi)>>, <<Outside(SharePointKeynote)>>}}

\* ... and those that differ in what the content resolvers read
ContentNodes ==
    {[EmptyContainer EXCEPT !.header = h, !.actors = <<Jane("top")>>, !.has_pt3 = p,
                            !.descriptions = d, !.commentary = m] :
        h \in {None, [text |-> AcmeHeaderText, in_text_view |-> TRUE, img |-> None]},
        p \in BOOLEAN, d \in ResolveRegionLists, m \in ResolveCommentaries}

\* a .pt3 or wrapper element exists when something lies inside it
WellFormed(c) ==
    /\ (\E k \in 1..Len(c.actors) : c.actors[k].in_wrapper) => c.has_wrapper
    /\ (\E k \in 1..Len(c.actors) : c.actors[k].in_pt3) => c.has_pt3
    /\ (\E k \in 1..Len(c.descriptions) : c.descriptions[k].in_pt3) => c.has_pt3
    /\ (c.commentary # None /\ c.commentary.in_pt3) => c.has_pt3

ResolveNodes == {c \in AuthorNodes \cup ContentNodes : WellFormed(c)}

InitResolve ==
    /\ pc = "node"
    /\ post_container \in ResolveNodes
    /\ count_text = <<>> /\ resolved = <<>>
    /\ NameIdle /\ SlugIdle /\ DateIdle /\ ClockIdle /\ RecordIdle /\ BatchIdle /\ RunIdle /\ RestIdle

\* is_repost(post_container)
IsRepost ==
    /\ pc = "node"
    /\ resolved' = is_repost(post_container)
    /\ pc' = "is_repost"
    /\ UNCHANGED <<restVars, nameVars, slugVars, dateVars, now, post_container, count_text, runVars,
                   recordVars, batchVars>>

\* get_profile_info(post_container) and
\* get_profile_info(post_container, is_reposter=True)
GetProfileInfo ==
    /\ pc = "node"
    /\ \E is_reposter \in BOOLEAN :
          resolved' = [is_reposter |-> is_reposter,
                       info |-> get_profile_info(post_container, UnknownUser, is_reposter)]
    /\ pc' = "get_profile_info"
    /\ UNCHANGED <<restVars, nameVars, slugVars, dateVars, now, post_container, count_text, runVars,
                   recordVars, batchVars>>

\* get_original_author_info(post_container)
GetOriginalAuthorInfo ==
    /\ pc = "node"
    /\ resolved' = get_original_author_info(post_container)
    /\ pc' = "get_original_author_info"
    /\ UNCHANGED <<restVars, nameVars, slugVars, dateVars, now, post_container, count_text, runVars,
                   recordVars, batchVars>>

\* get_post_description(post_container)
GetPostDescription ==
    /\ pc = "node"
    /\ resolved' = get_post_description(post_container)
    /\ pc' = "get_post_description"
    /\ UNCHANGED <<restVars, nameVars, slugVars, dateVars, now, post_container, count_text, runVars,
                   recordVars, batchVars>>

\* get_reposter_comment(post_container)
GetReposterComment ==
    /\ pc = "node"
    /\ resolved' = get_reposter_comment(post_container)
    /\ pc' = "get_reposter_comment"
    /\ UNCHANGED <<restVars, nameVars, slugVars, dateVars, now, post_container, count_text, runVars,
                   recordVars, batchVars>>

NextResolve ==
    \/ IsRepost \/ GetProfileInfo \/ GetOriginalAuthorInfo
    \/ GetPostDescription \/ GetReposterComment
SpecResolve == InitResolve /\ [][NextResolve]_vars

\* the identity the author resolver of the state returned
Identity == IF pc = "get_profile_info" THEN resolved.info ELSE resolved

\* C13: the identity get_profile_info returns (for a post and for a
\* reposter) and the one get_original_author_info returns has
\* slug = create_slug(name) for its own name, and an empty slug with an
\* empty name, the default name and the literal override included
C13_SlugOfName ==
    pc \in {"get_profile_info", "get_original_author_info"} =>
        /\ Identity.slug = create_slug(Identity.name)
        /\ Identity.name = <<>> => Identity.slug = <<>>
        /\ Identity.name = UnknownUser =>
              Identity.slug = <<"u","n","k","n","o","w","n","-","u","s","e","r">>
        /\ Identity.name = JaneDoe => Identity.slug = <<"j","a","n","e","-","d","o","e">>

\* C13 (witness): the original author of a standard repost, named by the
\* primary author block
C13_Witness ==
    /\ pc = "get_original_author_info"
    /\ has_marker_phrase(post_container)
    /\ resolved.name = JaneDoe
    /\ resolved.slug # <<>>

\* the five signals as they are stated, on the container of the state
QuotedCardWithAuthor ==
    /\ post_container.has_wrapper
    /\ \E k \in 1..Len(post_container.actors) : post_container.actors[k].in_wrapper
MarkerPhrase ==
    \/ /\ post_container.header # None
       /\ post_container.header.in_text_view
       /\ Contains(post_container.header.text, RepostedThis)
    \/ \E k \in 1..Len(post_container.actors) :
          /\ post_container.actors[k].title # None
          /\ Contains(post_container.actors[k].title.text, RepostedThis)
BlocksUnderDifferentParents ==
    \E j, k \in 1..Len(post_container.actors) :
        post_container.actors[j].parent.node # post_container.actors[k].parent.node
ReshareMarker == post_container.reshare_markers # {}
SecondaryRegionWithAuthor ==
    /\ post_container.has_pt3
    /\ \E k \in 1..Len(post_container.actors) : post_container.actors[k].in_pt3

\* C15 as stated: is_repost returns true exactly when one of the five
\* signals holds, the third being two or more author blocks that do not
\* all have the same parent element
C15_FiveSignals ==
    pc = "is_repost" =>
        (resolved <=> \/ QuotedCardWithAuthor
                      \/ MarkerPhrase
                      \/ BlocksUnderDifferentParents
                      \/ ReshareMarker
                      \/ SecondaryRegionWithAuthor)

\* the text before the phrase in a text that holds it
BeforePhrase(t) == SubSeq(t, 1, Find(t, RepostedThis) - 1)

\* the texts in which signal 2 finds the phrase
MarkedTexts ==
    {header_texts(post_container)[k] : k \in 1..Len(header_texts(post_container))}
        \cap {t \in {header_texts(post_container)[k] : k \in 1..Len(header_texts(post_container))} :
                Contains(t, RepostedThis)}

\* C16 as stated: when signal 2 finds the marker phrase, the reposter's name
\* is the sanitized text that precedes the phrase and nothing of the
\* identity is read from an author block: the picture is that of the
\* header and there is no description
C16_MarkerNameFromHeader ==
    (pc = "get_profile_info" /\ resolved.is_reposter /\ MarkerPhrase) =>
        /\ \E t \in MarkedTexts : resolved.info.name = clean_name(clean(BeforePhrase(t)))
        /\ resolved.info.description = <<>>
        /\ resolved.info.pic =
              IF post_container.header # None /\ post_container.header.img # None
              THEN post_container.header.img.src.text ELSE ""

\* the sanitized name of an author block, empty when it has no name span
NameOf(block) ==
    IF block = None \/ name_element(block) = None THEN <<>>
    ELSE clean_name(clean(name_element(block).text))

\* the author block each strategy reads the name from, in the order of the
\* strategies: (a) the primary block when the marker phrase is found, (b)
\* the block inside the quoted-card wrapper, (c) the block inside .pt3, (d)
\* the first of the second and later blocks that has a name
StrategyBlocks ==
    LET a == post_container.actors
        named == {k \in 2..Len(a) : NameOf(a[k]) # <<>>}
    IN  << IF MarkerPhrase /\ a # <<>> THEN a[1] ELSE None,
           IF post_container.has_wrapper THEN First(a, LAMBDA b : b.in_wrapper) ELSE None,
           IF post_container.has_pt3
           THEN First(a, LAMBDA b : b.in_pt3 /\ name_element(b) # None) ELSE None,
           IF named = {} THEN None ELSE a[CHOOSE x \in named : \A y \in named : x <= y] >>

\* the strategies that yield a name
Yielding == {k \in 1..4 : NameOf(StrategyBlocks[k]) # <<>>}
FirstYielding == CHOOSE x \in Yielding : \A y \in Yielding : x <= y

Fingerprint ==
    \E k \in 1..Len(post_container.descriptions) :
        Contains(post_container.descriptions[k].text, SharePointKeynote)

\* C17: the name get_original_author_info returns is that of the first of
\* the four strategies that yields a non-empty sanitized name; when none
\* does it is the literal override if the text of the node holds the
\* fingerprint phrase, and empty otherwise
C17_FirstStrategyWins ==
    pc = "get_original_author_info" =>
        resolved.name = IF Yielding # {} THEN NameOf(StrategyBlocks[FirstYielding])
                        ELSE IF Fingerprint THEN AdamHarmetz
                        ELSE <<>>

\* C17 (witness): the block inside .pt3 names the original author although
\* an earlier second block has a name too
C17_Witness ==
    /\ pc = "get_original_author_info"
    /\ Yielding = {3, 4}
    /\ NameOf(StrategyBlocks[3]) # NameOf(StrategyBlocks[4])
    /\ resolved.name = AlKim

\* the author blocks of the structural region that strategy k reads: the
\* primary block, the blocks inside the quoted-card wrapper, the blocks
\* inside .pt3, the later block that has the name
RegionBlocks(k) ==
    LET a == post_container.actors
    IN  IF k = 1 THEN {a[1]}
        ELSE IF k = 2 THEN {a[n] : n \in {n \in 1..Len(a) : a[n].in_wrapper}}
        ELSE IF k = 3 THEN {a[n] : n \in {n \in 1..Len(a) : a[n].in_pt3}}
        ELSE {StrategyBlocks[4]}

\* C18 as stated: a non-empty picture, description or link in the identity
\* that get_original_author_info returns with a name was read from the
\* structural region of the strategy that supplied the name
C18_SameRegion ==
    (pc = "get_original_author_info" /\ Yielding # {}) =>
        LET region == RegionBlocks(FirstYielding)
        IN  /\ resolved.pic \in {""} \cup {avatar_src(b, TRUE) : b \in region}
            /\ resolved.description \in
                  {<<>>} \cup {strip_followers(clean(b.description.text)) :
                                 b \in {r \in region : r.description # None}}
            /\ resolved.link \in
                  {""} \cup {b.link.href.text :
                               b \in {r \in region : r.link # None /\ r.link.href # None}}

\* the content regions of the container of the state
AllDescriptions == post_container.descriptions

\* the text of a content region as the resolvers return it
SpanText(region) == content_of(region.span.text)

\* C19 as stated: get_reposter_comment returns the text of the first of two
\* or more content regions only when that region is outside .pt3, else the
\* text of the commentary region when that is outside .pt3, else nothing
C19_CommentOutsideCard ==
    pc = "get_reposter_comment" =>
        resolved =
            IF /\ Len(AllDescriptions) >= 2
               /\ ~AllDescriptions[1].in_pt3
               /\ AllDescriptions[1].span # None
            THEN SpanText(AllDescriptions[1])
            ELSE IF /\ post_container.commentary # None
                    /\ ~post_container.commentary.in_pt3
                    /\ post_container.commentary.span # None
            THEN SpanText(post_container.commentary)
            ELSE <<>>

\* the content regions inside .pt3 that have text
CardRegions == {k \in 1..Len(AllDescriptions) :
                  AllDescriptions[k].in_pt3 /\ AllDescriptions[k].span # None}

\* C20 as stated: the body is that of the first strategy that yields text:
\* (a) the first content region inside .pt3, (b) with two or more regions
\* the last region inside .pt3 that has text, (c) the region inside the
\* nested-update wrapper, (d) the first region of the node
C20_FirstStrategyBody ==
    pc = "get_post_description" =>
        LET in_card == First(AllDescriptions, LAMBDA d : d.in_pt3)
            nested == First(AllDescriptions, LAMBDA d : d.in_update_wrapper)
        IN  resolved =
              IF post_container.has_pt3 /\ in_card # None /\ in_card.span # None
              THEN SpanText(in_card)
              ELSE IF Len(AllDescriptions) >= 2 /\ CardRegions # {}
              THEN SpanText(AllDescriptions[CHOOSE a \in CardRegions :
                                               \A b \in CardRegions : a >= b])
              ELSE IF nested # None /\ nested.span # None
              THEN SpanText(nested)
              ELSE get_post_description([post_container EXCEPT
                                            !.descriptions = IF AllDescriptions = <<>> THEN <<>>
                                                             ELSE <<AllDescriptions[1]>>,
                                            !.has_pt3 = FALSE])

(***************************************************************************)
(* Specification SpecDecode: one call of decode_linkedin_timestamp         *)
(***************************************************************************)
\* the activity id whose shift by 23 bits is the instant t after the epoch
IdOf(t) ==
    [q |-> [day |-> t.day \div 4, ms |-> (t.day % 4) * (DAY_MS \div 4) + (t.ms \div 4)],
     b |-> 2 * (t.ms % 4)]

\* the days after the epoch of the identifiers considered: from the epoch
\* itself to instants whose year datetime cannot hold
IdDays == {0, 1000, 2000, 5000, 6000, 730000, 2918000, 12000000}

\* the activity ids considered: the bits 22..24 in every combination over a
\* range of instants, and the ids whose shift by 23, 24 or 25 bits is the
\* reading of the clock
DecodeIds(clock) ==
    {[q |-> [day |-> d, ms |-> m], b |-> b] : d \in IdDays, m \in {0, 43200123}, b \in 0..7}
    \cup {IdOf(clock),
          [q |-> IdOf(clock).q, b |-> 7],
          [q |-> [day |-> clock.day \div 2, ms |-> (clock.day % 2) * (DAY_MS \div 2) + (clock.ms \div 2)],
           b |-> 4 * (clock.ms % 2)],
          [q |-> clock, b |-> 0]}

InitDecode ==
    /\ pc = "activity_id"
    /\ now \in Nows
    /\ activity_id \in DecodeIds(now)
    /\ post_datetime = <<>>
    /\ NameIdle /\ SlugIdle /\ DateIdle /\ NodeIdle /\ RecordIdle /\ BatchIdle
    /\ ResolverIdle /\ RunIdle /\ RolloverIdle /\ VideoIdle /\ ConsolidatorIdle
    /\ RunnerIdle

DecodeLinkedinTimestamp ==
    /\ pc = "activity_id"
    /\ post_datetime' = decode_linkedin_timestamp(activity_id, now)
    /\ pc' = "post_datetime"
    /\ UNCHANGED <<nameVars, slugVars, dateVars, now, post_container, recordVars,
                   batchVars, resolverVars, runVars, activity_id, rolloverVars,
                   videoVars, consolidatorVars, runnerVars>>

NextDecode == DecodeLinkedinTimestamp

SpecDecode == InitDecode /\ [][NextDecode]_vars

\* the reference epoch, 2010-01-01 00:00
Epoch == [day |-> 0, ms |-> 0]

\* a is strictly before b
Before(a, b) == NotAfter(a, b) /\ a # b

\* C21 as stated: decode_linkedin_timestamp returns nothing or an instant
\* strictly after the reference epoch and strictly before the current time
C21_StrictWindow ==
    (pc = "post_datetime" /\ post_datetime # None) =>
        Before(Epoch, post_datetime) /\ Before(post_datetime, now)

\* the bit-widths in the order the spec tries them
Widths == <<23, 22, 24, 25>>

\* the instant the width w gives, or ConversionError
Candidate(w) == fromtimestamp(ShiftRight(activity_id, w))

\* the widths whose instant lies strictly between the epoch and now
Acceptable ==
    {k \in 1..Len(Widths) :
        /\ Candidate(Widths[k]) # ConversionError
        /\ Before(Epoch, Candidate(Widths[k]))
        /\ Before(Candidate(Widths[k]), now)}

\* C22 as stated: decode_linkedin_timestamp returns the instant of the
\* first of the widths 23, 22, 24, 25 whose instant lies in the acceptance
\* window, and returns nothing only when no width gives such an instant
C22_FirstWidthInWindow ==
    pc = "post_datetime" =>
        /\ Acceptable # {} =>
              post_datetime = Candidate(Widths[CHOOSE a \in Acceptable :
                                                  \A b \in Acceptable : a <= b])
        /\ post_datetime = None => Acceptable = {}

(***************************************************************************)
(* Specification SpecRollover: the month and year of the month branch of   *)
(* get_date                                                                *)
(***************************************************************************)
\* the clock readings considered: the middle of every month of two years
MonthNows == {Instant(y, m, 15, 12, 0, 0, 0) : y \in {2024, 2025}, m \in 1..12}

InitRollover ==
    /\ pc = "months"
    /\ now \in MonthNows
    /\ months \in 0..MaxMonths
    /\ new_month = <<>>
    /\ new_year = <<>>
    /\ NameIdle /\ SlugIdle /\ DateIdle /\ NodeIdle /\ RecordIdle /\ BatchIdle
    /\ ResolverIdle /\ RunIdle /\ DecodeIdle /\ VideoIdle /\ ConsolidatorIdle
    /\ RunnerIdle

\* new_month = today.month - months, new_year = today.year, and the loop
Rollover ==
    /\ pc = "months"
    /\ LET today == CivilOf(now.day)
           r == rollover(today.month - months, today.year)
       IN  new_month' = r.month /\ new_year' = r.year
    /\ pc' = "new_month"
    /\ UNCHANGED <<nameVars, slugVars, dateVars, now, post_container, recordVars,
                   batchVars, resolverVars, runVars, decodeVars, months,
                   videoVars, consolidatorVars, runnerVars>>

NextRollover == Rollover

SpecRollover == InitRollover /\ [][NextRollover]_vars

\* C23: for every month and year of the clock and every magnitude, the
\* loop of the month branch ends with new_month in 1..12 and
\* new_year * 12 + new_month = year * 12 + month - magnitude
C23_RolloverExact ==
    pc = "new_month" =>
        /\ new_month \in 1..12
        /\ new_year * 12 + new_month
              = CivilOf(now.day).year * 12 + CivilOf(now.day).month - months

\* C23 (witness): a magnitude of more than two years from a clock reading
\* in December, so that the loop borrows three times
C23_Witness ==
    /\ pc = "new_month"
    /\ CivilOf(now.day).month = 12
    /\ months = 36
    /\ new_month = 12
    /\ new_year = CivilOf(now.day).year - 3

(***************************************************************************)
(* Specification SpecVideo: one call of get_video_info                     *)
(***************************************************************************)
\* the texts of the duration elements considered
DurationTexts ==
    {<<>>, <<"-", "1", ":", "0", "5">>, <<"7", "5">>, <<"1", ":", "5">>,
     <<"9", "0", ":", "7", "5">>, <<"1", "m">>}

\* the values of the data-duration attribute considered
DataDurations == {None, Elem(<<"1", "2", "5">>), Elem(<<"-", "5">>), Elem(<<"2", "m">>)}

IsoDuration(t) == <<[kind |-> "object", duration |-> Elem(t)]>>

\* the lists of ld+json scripts considered
VideoScripts ==
    {<<>>,
     <<[kind |-> "no_string", duration |-> None]>>,
     <<[kind |-> "other", duration |-> None]>>,
     <<[kind |-> "invalid", duration |-> None]>> \o IsoDuration(<<"P", "T", "1", "M", "5", "S">>),
     IsoDuration(<<"P", "T", "9", "0", "S">>),
     IsoDuration(<<"P", "T", "1", "M", "7", "5", "S">>),
     IsoDuration(<<"P", "T", "1", "H", "2", "M", "3", "S">>),
     IsoDuration(<<"9", "0">>)}

VideoContainers ==
    {[EmptyContainer EXCEPT !.duration_texts = texts, !.data_duration = d,
                            !.ld_scripts = scripts] :
        texts \in SeqsUpTo(DurationTexts, MaxDurations), d \in DataDurations,
        scripts \in VideoScripts}

InitVideo ==
    /\ pc = "node"
    /\ post_container \in VideoContainers
    /\ video = <<>>
    /\ NameIdle /\ SlugIdle /\ DateIdle /\ ClockIdle /\ RecordIdle /\ BatchIdle
    /\ ResolverIdle /\ RunIdle /\ DecodeIdle /\ RolloverIdle /\ ConsolidatorIdle
    /\ RunnerIdle

GetVideoInfo ==
    /\ pc = "node"
    /\ video' = get_video_info(post_container)
    /\ pc' = "video_info"
    /\ UNCHANGED <<nameVars, slugVars, dateVars, now, post_container, recordVars,
                   batchVars, resolverVars, runVars, decodeVars, rolloverVars,
                   consolidatorVars, runnerVars>>

NextVideo == GetVideoInfo

SpecVideo == InitVideo /\ [][NextVideo]_vars

\* d is minutes, a colon and two digits of seconds in 00..59
IsMinutesSeconds(d) ==
    /\ Len(d) >= 4
    /\ d[Len(d) - 2] = ":"
    /\ AllDigits(SubSeq(d, 1, Len(d) - 3))
    /\ AllDigits(SubSeq(d, Len(d) - 1, Len(d)))
    /\ int(SubSeq(d, Len(d) - 1, Len(d))) <= 59

\* C24 as stated: the duration get_video_info returns is minutes, a colon
\* and exactly two digits of seconds in 00..59
C24_DurationNormalized ==
    (pc = "video_info" /\ ~video.raised) => IsMinutesSeconds(video.duration)

(***************************************************************************)
(* The run of CreateJSON.py, continued                                     *)
(***************************************************************************)
\* C25 as stated: a run that ends in a top-level failure, with a nonzero
\* exit code, has written no Post_<id>.json file
C25_NoPartialOutput ==
    (Exited /\ returncode # <<0>>) => written = <<>>

(***************************************************************************)
(* get_date, continued                                                     *)
(***************************************************************************)
\* C26 as stated: the instant get_date returns is not later than now, for
\* every relative-age string and every draw of the jitter
C26_NeverInFuture ==
    (pc = "dated" /\ ~formatted_date.raised) => NotAfter(formatted_date.instant, now)

(***************************************************************************)
(* Specification SpecConsolidate: one run of Convert_to_XLSX.py            *)
(*                                                                         *)
(* The Excel file is None or [loadable, columns, rows]; a row and the data *)
(* of a JSON file are [author_name, timestamp, content], a JSON file that  *)
(* cannot be processed is Unreadable.                                      *)
(***************************************************************************)
\* hashlib.md5(content.encode()).hexdigest()[:8]: eight hexadecimal digits
\* of the digest, here a table over the contents considered; two of the
\* contents share their eight digits
create_content_hash(content) ==
    IF content = <<"y">> THEN <<"0", "b">> ELSE <<"9", "d">>

\* f"{author_name}_{timestamp}_{content_hash}" of the stripped strings
detection_key(author_name, timestamp, content_hash) ==
    strip(author_name) \o <<"_">> \o strip(timestamp) \o <<"_">> \o strip(content_hash)

\* parse_post_ml_optimized(data), the fields the consolidator reads
parse_post_ml_optimized(data) ==
    [author_name |-> data.author_name,
     timestamp |-> data.timestamp,
     content |-> data.content,
     content_hash |-> create_content_hash(data.content)]

\* the key of a record of the dataset
key_of(record) == detection_key(record.author_name, record.timestamp, record.content_hash)

\* existing_keys of lines 47-66: the keys of the rows of df_master
keys_of(rows) == {key_of(rows[k]) : k \in 1..Len(rows)}

\* a JSON file whose loading or parsing raises an exception
Unreadable == [unreadable |-> TRUE]

\* the processing loop adding the record whether or not its key is known
process_file_adding_known(file, keys, records, processed, skipped) ==
    IF file = Unreadable
    THEN [keys |-> keys, records |-> records, processed |-> processed, skipped |-> skipped + 1]
    ELSE [keys |-> keys \cup {key_of(parse_post_ml_optimized(file))},
          records |-> Append(records, parse_post_ml_optimized(file)),
          processed |-> processed + 1, skipped |-> skipped]

\* the processing loop on one file, with the counters one step further
process_file(file, keys, records, processed, skipped) ==
    IF file = Unreadable
    THEN [keys |-> keys, records |-> records, processed |-> processed, skipped |-> skipped + 1]
    ELSE With([record \in {parse_post_ml_optimized(file)} |->
           IF key_of(record) \notin keys
           THEN [keys |-> keys \cup {key_of(record)}, records |-> Append(records, record),
                 processed |-> processed + 1, skipped |-> skipped]
           ELSE [keys |-> keys, records |-> records, processed |-> processed,
                 skipped |-> skipped + 1]])

\* the posts considered: authors that differ only by surrounding blanks,
\* and contents that share a content hash
PostData ==
    [author_name : {<<"A", "l">>, <<"A", "l", " ">>}, timestamp : {<<"t", "1">>},
     content : {<<"x">>, <<"y">>}]
    \cup {[author_name |-> <<"B", "o">>, timestamp |-> <<"t", "2">>, content |-> <<"z">>]}

JsonFiles == PostData \cup {Unreadable}

\* the rows an existing Excel file may hold
DatasetRows ==
    {[author_name |-> <<"A", "l">>, timestamp |-> <<"t", "1">>, content |-> <<"x">>,
      content_hash |-> create_content_hash(<<"x">>)]}

\* the Excel files considered
ExcelFiles ==
    {None}
    \cup [loadable : {FALSE}, columns : {{}}, rows : {<<>>}]
    \cup [loadable : {TRUE},
          columns : {{"content", "content_hash"}, {"content"}, {}},
          rows : SeqsUpTo(DatasetRows, MaxRows)]

InitConsolidate ==
    /\ pc = "start"
    /\ xlsx \in ExcelFiles
    /\ all_json_files \in SeqsUpTo(JsonFiles, MaxFiles)
    /\ df_master = <<>>
    /\ existing_keys = {}
    /\ new_records = <<>>
    /\ processed_files = 0
    /\ skipped_files = 0
    /\ summary = <<>>
    /\ NameIdle /\ SlugIdle /\ DateIdle /\ ClockIdle /\ NodeIdle /\ RecordIdle /\ BatchIdle
    /\ ResolverIdle /\ RunIdle /\ DecodeIdle /\ RolloverIdle /\ VideoIdle /\ RunnerIdle

\* STEP 1, lines 25-71.  df_master after the load is the rows read, or
\* none when read_excel raised.  Without a content_hash column line 44
\* runs: df_master.get('content', '') is the text '' when there is no
\* content column, and ''.apply raises AttributeError; with a content
\* column that has rows, apply calls create_content_hash, which line 133
\* has not defined yet, and NameError is raised.  Neither is in a try.
LoadExisting ==
    /\ pc = "start"
    /\ IF xlsx = None
       THEN /\ df_master' = <<>>
            /\ existing_keys' = {}
            /\ pc' = "loaded"
       ELSE LET rows == IF xlsx.loadable THEN xlsx.rows ELSE <<>>
                columns == IF xlsx.loadable THEN xlsx.columns ELSE {}
            IN  /\ df_master' = rows
                /\ existing_keys' = IF "content_hash" \in columns THEN keys_of(rows) ELSE {}
                /\ pc' = IF "content_hash" \in columns THEN "loaded"
                         ELSE IF "content" \in columns /\ rows = <<>> THEN "loaded"
                         ELSE "traceback"
    /\ UNCHANGED <<nameVars, slugVars, dateVars, now, post_container, recordVars,
                   batchVars, resolverVars, runVars, decodeVars, rolloverVars, videoVars, runnerVars,
                   xlsx, all_json_files, new_records, processed_files, skipped_files,
                   summary>>

\* lines 440-452: the scan; without JSON files the run ends with exit(1)
FindAllJsonFiles ==
    /\ pc = "loaded"
    /\ pc' = IF all_json_files = <<>> THEN "exit" ELSE "processing"
    /\ UNCHANGED <<nameVars, slugVars, dateVars, now, post_container, recordVars,
                   batchVars, resolverVars, runVars, decodeVars, rolloverVars, videoVars, runnerVars,
                   consolidatorVars>>

\* one iteration of the loop of lines 454-486
ProcessJsonFile ==
    /\ pc = "processing"
    /\ processed_files + skipped_files < Len(all_json_files)
    /\ LET r == process_file(all_json_files[processed_files + skipped_files + 1],
                             existing_keys, new_records, processed_files, skipped_files)
       IN  /\ existing_keys' = r.keys
           /\ new_records' = r.records
           /\ processed_files' = r.processed
           /\ skipped_files' = r.skipped
    /\ UNCHANGED <<nameVars, slugVars, dateVars, now, post_container, recordVars,
                   batchVars, resolverVars, runVars, decodeVars, rolloverVars, videoVars, runnerVars,
                   pc, xlsx, df_master, all_json_files, summary>>

\* STEP 3, lines 491-498: the summary
PrintSummary ==
    /\ pc = "processing"
    /\ processed_files + skipped_files = Len(all_json_files)
    /\ summary' = [scanned |-> Len(all_json_files),
                   added |-> Len(new_records),
                   duplicates |-> skipped_files,
                   errors |-> skipped_files
                              - (Len(all_json_files) - processed_files - Len(new_records))]
    /\ pc' = "summary"
    /\ UNCHANGED <<nameVars, slugVars, dateVars, now, post_container, recordVars,
                   batchVars, resolverVars, runVars, decodeVars, rolloverVars, videoVars, runnerVars,
                   xlsx, df_master, existing_keys, all_json_files, new_records,
                   processed_files, skipped_files>>

\* STEP 4, lines 503-578: the combined dataset is saved when there are new
\* records.  The timestamps considered stand for texts pd.to_datetime
\* parses, so that the sort of lines 513-515 does not raise.
SaveDataset ==
    /\ pc = "summary"
    /\ xlsx' = IF new_records = <<>> THEN xlsx
               ELSE [loadable |-> TRUE, columns |-> {"content", "content_hash"},
                     rows |-> df_master \o new_records]
    /\ pc' = "completed"
    /\ UNCHANGED <<nameVars, slugVars, dateVars, now, post_container, recordVars,
                   batchVars, resolverVars, runVars, decodeVars, rolloverVars, videoVars, runnerVars,
                   df_master, existing_keys, all_json_files, new_records,
                   processed_files, skipped_files, summary>>

NextConsolidate ==
    \/ LoadExisting \/ FindAllJsonFiles \/ ProcessJsonFile \/ PrintSummary \/ SaveDataset

SpecConsolidate == InitConsolidate /\ [][NextConsolidate]_vars

\* the keys of the records added so far, in the order they were added
NewKeys == [k \in 1..Len(new_records) |-> key_of(new_records[k])]

\* the keys the loop started with
InitialKeys == keys_of(df_master)

\* C27: the keys of the records in new_records are pairwise distinct, none
\* of them was known when the loop started, and existing_keys is the
\* initial keys together with the keys of new_records
C27_NoDuplicateKeys ==
    pc \in {"processing", "summary", "completed"} =>
        /\ \A a, b \in 1..Len(NewKeys) : NewKeys[a] = NewKeys[b] => a = b
        /\ \A a \in 1..Len(NewKeys) : NewKeys[a] \notin InitialKeys
        /\ existing_keys = InitialKeys \cup {NewKeys[a] : a \in 1..Len(NewKeys)}

\* C27 (witness): of three files with the same key one was added, and a
\* file whose key the existing dataset held was skipped
C27_Witness ==
    /\ pc = "summary"
    /\ Len(all_json_files) = 3
    /\ Unreadable \notin {all_json_files[k] : k \in 1..3}
    /\ InitialKeys # {}
    /\ Len(new_records) = 1
    /\ skipped_files = 2

\* C29 as stated: when the Excel file exists and cannot be loaded, or is
\* loaded without a content_hash column, the run does not end with an
\* error before the JSON files are processed
C29_RecoversFromBadExcel ==
    (xlsx # None /\ (~xlsx.loadable \/ "content_hash" \notin xlsx.columns)) =>
        pc # "traceback"

\* the files whose processing raised an exception
FilesWithErrors == {k \in 1..Len(all_json_files) : all_json_files[k] = Unreadable}

\* C30 as stated: the summary prints the number of records added, the
\* number of files skipped because their key was known, the number of
\* files whose processing raised an exception, and the three add up to
\* the number of files scanned
C30_SummaryExact ==
    pc \in {"summary", "completed"} =>
        /\ summary.scanned = Len(all_json_files)
        /\ summary.added = Len(new_records)
        /\ summary.errors = Cardinality(FilesWithErrors)
        /\ summary.duplicates
              = Len(all_json_files) - Len(new_records) - Cardinality(FilesWithErrors)
        /\ summary.added + summary.duplicates + summary.errors = summary.scanned

(***************************************************************************)
(* Specification SpecReprocess: main of Re_Process_html_Batch.py           *)
(***************************************************************************)
\* response = input(...).strip().lower(); response in ['y', 'yes'], with
\* any answer taken for a confirmation
proceeds_whatever(answer) == TRUE

\* response = input(...).strip().lower(); response in ['y', 'yes']
proceeds(answer) == lower(strip(answer)) \in {<<"y">>, <<"y", "e", "s">>}

\* what happens inside the try of run_create_json: subprocess.run returns
\* the exit code of the run, or raises TimeoutExpired, or raises another
\* exception; or the run exits with 0 and the print of the success line
\* raises on a console that cannot encode it
RunResults ==
    {[returncode |-> 0], [returncode |-> 1],
     [raised |-> "TimeoutExpired"], [raised |-> "OSError"],
     [returncode |-> 0, raised |-> "UnicodeEncodeError"]}

\* run_create_json(html_file, output_dir), given what happened in its try
run_create_json(result) == "raised" \notin DOMAIN result /\ result.returncode = 0

\* the documents find_latest_posts_files may find, in the order of os.walk
DocumentPath(n) == <<"p">> \o NumStr(n, 1) \o <<"/", "L", "a", "t", "e", "s", "t", "P", "o", "s", "t", "s", ".", "h", "t", "m", "l">>
Discoveries == {[k \in 1..n |-> DocumentPath(k)] : n \in 0..MaxDocuments}

\* what the user may type at the prompt
YesAnswers == {<<"y">>, <<"y", "e", "s">>, <<"Y">>, <<" ", "Y", "e", "s", " ">>}
Answers == YesAnswers \cup {<<>>, <<"n">>, <<"N", "o">>, <<"y", "e", "s", "!">>, <<"y", " ", "e", "s">>}

InitReprocess ==
    /\ pc = "main"
    /\ script_exists \in BOOLEAN
    /\ html_files \in Discoveries
    /\ response \in Answers
    /\ invocations = <<>>
    /\ successful = 0
    /\ failed = 0
    /\ NameIdle /\ SlugIdle /\ DateIdle /\ ClockIdle /\ NodeIdle /\ RecordIdle /\ BatchIdle
    /\ ResolverIdle /\ RunIdle /\ DecodeIdle /\ RolloverIdle /\ VideoIdle /\ ConsolidatorIdle

\* lines 82-114: the script is looked for, the files are listed, the user
\* is asked
AskConfirmation ==
    /\ pc = "main"
    /\ pc' = IF ~script_exists THEN "exit 1"
             ELSE IF ~proceeds(response) THEN "exit 0"
             ELSE "processing"
    /\ UNCHANGED <<nameVars, slugVars, dateVars, now, post_container, recordVars,
                   batchVars, resolverVars, runVars, decodeVars, rolloverVars, videoVars,
                   consolidatorVars, runnerVars>>

\* one iteration of the loop of lines 123-129
ProcessHtmlFile ==
    /\ pc = "processing"
    /\ Len(invocations) < Len(html_files)
    /\ \E result \in RunResults :
          /\ invocations' = Append(invocations,
                                   [html_file |-> html_files[Len(invocations) + 1],
                                    result |-> result])
          /\ successful' = IF run_create_json(result) THEN successful + 1 ELSE successful
          /\ failed' = IF run_create_json(result) THEN failed ELSE failed + 1
    /\ UNCHANGED <<nameVars, slugVars, dateVars, now, post_container, recordVars,
                   batchVars, resolverVars, runVars, decodeVars, rolloverVars, videoVars,
                   consolidatorVars, pc, script_exists, html_files, response>>

\* lines 131-144: the final summary
BatchComplete ==
    /\ pc = "processing"
    /\ Len(invocations) = Len(html_files)
    /\ pc' = "complete"
    /\ UNCHANGED <<nameVars, slugVars, dateVars, now, post_container, recordVars,
                   batchVars, resolverVars, runVars, decodeVars, rolloverVars, videoVars,
                   consolidatorVars, runnerVars>>

NextReprocess == AskConfirmation \/ ProcessHtmlFile \/ BatchComplete

SpecReprocess == InitReprocess /\ [][NextReprocess]_vars

\* C28: CreateJSON is started only after the user answered y or yes, once
\* for every document found and in the order they were found, whatever
\* the earlier runs did; every run is counted as successful or failed,
\* and at the end the two counters add up to the number of documents
C28_EveryDocumentOnce ==
    /\ invocations # <<>> => response \in YesAnswers
    /\ Len(invocations) <= Len(html_files)
    /\ \A k \in 1..Len(invocations) : invocations[k].html_file = html_files[k]
    /\ successful + failed = Len(invocations)
    /\ (pc = "processing" /\ Len(invocations) < Len(html_files)) => ENABLED ProcessHtmlFile
    /\ pc = "complete" =>
          /\ Len(invocations) = Len(html_files)
          /\ successful + failed = Len(html_files)
    /\ (script_exists /\ response \in YesAnswers) => pc \in {"main", "processing", "complete"}

\* C28 (witness): three documents; the first run exits nonzero, the second
\* times out, the third succeeds
C28_Witness ==
    /\ pc = "complete"
    /\ Len(html_files) = 3
    /\ invocations[1].result = [returncode |-> 1]
    /\ invocations[2].result = [raised |-> "TimeoutExpired"]
    /\ invocations[3].result = [returncode |-> 0]
    /\ successful = 1
    /\ failed = 2

=============================================================================
